---- MODULE Spec2Model ----
(***************************************************************************)
(* Salt-Bot ticket system: the creation saga of TicketManager              *)
(* (src/unnamed/part_002) and the ticket button handlers (close, reopen,   *)
(* archive, delete with its confirmation collector, claim) of              *)
(* src/unnamed/part_001, over one guild.  Every `await` of the source is   *)
(* a step boundary: the code between two awaits is one atomic action.      *)
(* Calls into the record store, Discord and the notifier may throw; the    *)
(* outcome of each such call is drawn with \E ok \in BOOLEAN.              *)
(* The retry loops of LLM.invoke and Embedding.create                     *)
(* (src/src/utils/ai/llm.ts) are modelled beside them, one call each.      *)
(***************************************************************************)
EXTENDS Integers, Sequences, FiniteSets, Bags, TLC

\* ------------------------------------------------------------------ bounds
NumUsers == 2
MaxSagas == 2
MaxHandlers == 2
MaxDeliveries == 2
MaxGates == 1
MaxChannels == 1
MaxRetriesBound == 3

Users == 1..NumUsers
Sagas == 1..MaxSagas
Handlers == 1..MaxHandlers

\* ITicketStatus
OPEN == "open"
CLOSED == "closed"
ARCHIVED == "archived"

NoUser == 0
NoChannel == 0
NoTicket == 0
SystemUser == "system"

VARIABLES
    tickets,        \* the ticket table of the record store, in insertion order
    channels,       \* client.channels.cache: the ids of the channels that exist
    chanCount,      \* number of channels Discord has created so far (ids are 1..chanCount)
    guildState,     \* the guild's ticket configuration: "missing", "disabled" or "enabled"
    categoryState,  \* the chosen category: "missing", "disabled" or "enabled"
    supportRole,    \* whether the category has a supportRoleId
    saga,           \* one record per TicketManager.createTicket execution
    handler,        \* one record per execution of a ticket button handler
    delivery,       \* the component interactions sent to delete collectors: a bag
                    \* with one record per interaction
    llm,            \* one execution of LLM.invoke
    emb             \* one execution of Embedding.create

vars == <<tickets, channels, chanCount, guildState, categoryState, supportRole,
          saga, handler, delivery, llm, emb>>

\* What the saga and the button handlers never write: the guild's
\* configuration and the two AI calls.
config == <<guildState, categoryState, supportRole, llm, emb>>

ConfigStates == {"missing", "disabled", "enabled"}

\* ---------------------------------------------------------------- AI calls
\* An LLM.invoke that has not been called; maxRetries and retryDelayMs are the
\* constructor's arguments.
IdleLLM == [pc |-> "idle", maxRetries |-> 0, retryDelayMs |-> 0, retries |-> 0,
            requests |-> 0, delays |-> <<>>, error |-> 0]

\* An Embedding.create that has not been called.
IdleEmb == [pc |-> "idle", maxRetries |-> 0, retryDelayMs |-> 0, retries |-> 0,
            attempts |-> 0, delays |-> <<>>, error |-> "none", thrown |-> "none"]

RetryCounts == 0..MaxRetriesBound

RetryDelays == {1, 250, 1000}

\* error.status of what chat.completions.create throws; NoStatus stands for
\* an error that carries no status, such as a connection error or the "No
\* response from LLM" of a missing response.
NoStatus == 0

ErrorStatuses == {400, 404, 429, 500, 503, NoStatus}

\* Math.pow(2, n)
RECURSIVE Pow2(_)
Pow2(n) == IF n = 0 THEN 1 ELSE 2 * Pow2(n - 1)

\* error.status === 429 || error.status >= 500
Retryable(status) == status # NoStatus /\ (status = 429 \/ status >= 500)

\* new LLM(apiKey, baseUrl, maxRetries, retryDelayMs).invoke(...): retries = 0.
LLMInvoke ==
    /\ llm.pc = "idle"
    /\ \E m \in RetryCounts, d \in RetryDelays :
          llm' = [IdleLLM EXCEPT !.pc = "request", !.maxRetries = m, !.retryDelayMs = d]
    /\ UNCHANGED <<tickets, channels, chanCount, guildState, categoryState, supportRole,
                   saga, handler, delivery, emb>>

\* A loop that retries after every error.
LLMRequestRetriesAll ==
    /\ llm.pc = "request"
    /\ \E response \in BOOLEAN, status \in ErrorStatuses :
          IF response
          THEN llm' = [llm EXCEPT !.pc = "returned", !.requests = @ + 1]
          ELSE LET retries == llm.retries + 1
               IN IF retries <= llm.maxRetries
                  THEN llm' = [llm EXCEPT !.pc = "wait", !.requests = @ + 1,
                                          !.retries = retries, !.error = status,
                                          !.delays = Append(@, llm.retryDelayMs
                                                               * Pow2(retries - 1))]
                  ELSE llm' = [llm EXCEPT !.pc = "thrown", !.requests = @ + 1,
                                          !.retries = retries,
                                          !.error = status]
    /\ UNCHANGED <<tickets, channels, chanCount, guildState, categoryState, supportRole,
                   saga, handler, delivery, emb>>

\* One pass of the while loop: await chat.completions.create.  A response is
\* returned; a missing response throws an error without status inside the
\* try, like a throw of the call itself; the catch counts the failure and
\* either waits retryDelayMs * 2^(retries - 1) or rethrows.
LLMRequest ==
    /\ llm.pc = "request"
    /\ \E response \in BOOLEAN, status \in ErrorStatuses :
          IF response
          THEN llm' = [llm EXCEPT !.pc = "returned", !.requests = @ + 1]
          ELSE LET retries == llm.retries + 1
               IN IF retries <= llm.maxRetries /\ Retryable(status)
                  THEN llm' = [llm EXCEPT !.pc = "wait", !.requests = @ + 1,
                                          !.retries = retries, !.error = status,
                                          !.delays = Append(@, llm.retryDelayMs
                                                               * Pow2(retries - 1))]
                  ELSE llm' = [llm EXCEPT !.pc = "thrown", !.requests = @ + 1,
                                          !.retries = retries,
                                          !.error = status]
    /\ UNCHANGED <<tickets, channels, chanCount, guildState, categoryState, supportRole,
                   saga, handler, delivery, emb>>

\* The setTimeout of the retry fires and the loop starts over.
LLMWait ==
    /\ llm.pc = "wait"
    /\ llm' = [llm EXCEPT !.pc = "request"]
    /\ UNCHANGED <<tickets, channels, chanCount, guildState, categoryState, supportRole,
                   saga, handler, delivery, emb>>

\* new Embedding(model, maxRetries, retryDelayMs).create(text): getPipeline is
\* awaited outside the loop, so its throw leaves create at once; retries = 0.
EmbCreate ==
    /\ emb.pc = "idle"
    /\ \E m \in RetryCounts, d \in RetryDelays, pipelineOk \in BOOLEAN :
          emb' = IF pipelineOk
                 THEN [IdleEmb EXCEPT !.pc = "extract", !.maxRetries = m, !.retryDelayMs = d]
                 ELSE [IdleEmb EXCEPT !.pc = "thrown", !.maxRetries = m, !.retryDelayMs = d,
                                      !.thrown = "pipeline"]
    /\ UNCHANGED <<tickets, channels, chanCount, guildState, categoryState, supportRole,
                   saga, handler, delivery, llm>>

\* What a pass of the loop can throw inside its try: the extractor rejects,
\* it resolves to nothing ("No embeddings returned"), or the conversion of
\* its result to an array throws.
ExtractErrors == {"extractor", "empty", "convert"}

\* A loop that gives up only once retries exceeds maxRetries, as that of
\* LLM.invoke does.
EmbExtractOneMoreAttempt ==
    /\ emb.pc = "extract"
    /\ \E outcome \in {"embeddings"} \cup ExtractErrors :
          IF outcome = "embeddings"
          THEN emb' = [emb EXCEPT !.pc = "returned", !.attempts = @ + 1]
          ELSE LET retries == emb.retries + 1
               IN IF retries > emb.maxRetries
                  THEN emb' = [emb EXCEPT !.pc = "thrown", !.attempts = @ + 1,
                                          !.retries = retries, !.error = outcome,
                                          !.thrown = "wrapped"]
                  ELSE emb' = [emb EXCEPT !.pc = "wait", !.attempts = @ + 1,
                                          !.retries = retries, !.error = outcome,
                                          !.delays = Append(@, emb.retryDelayMs)]
    /\ UNCHANGED <<tickets, channels, chanCount, guildState, categoryState, supportRole,
                   saga, handler, delivery, llm>>

\* One pass of the while loop: await extractor(text, ...).  The array is
\* returned; any throw, "No embeddings returned" included, is counted by the
\* catch, which throws the wrapping error once retries >= maxRetries and
\* otherwise waits retryDelayMs.
EmbExtract ==
    /\ emb.pc = "extract"
    /\ \E outcome \in {"embeddings"} \cup ExtractErrors :
          IF outcome = "embeddings"
          THEN emb' = [emb EXCEPT !.pc = "returned", !.attempts = @ + 1]
          ELSE LET retries == emb.retries + 1
               IN IF retries >= emb.maxRetries
                  THEN emb' = [emb EXCEPT !.pc = "thrown", !.attempts = @ + 1,
                                          !.retries = retries, !.error = outcome,
                                          !.thrown = "wrapped"]
                  ELSE emb' = [emb EXCEPT !.pc = "wait", !.attempts = @ + 1,
                                          !.retries = retries, !.error = outcome,
                                          !.delays = Append(@, emb.retryDelayMs)]
    /\ UNCHANGED <<tickets, channels, chanCount, guildState, categoryState, supportRole,
                   saga, handler, delivery, llm>>

\* The setTimeout of the retry fires and the loop starts over.
EmbWait ==
    /\ emb.pc = "wait"
    /\ emb' = [emb EXCEPT !.pc = "extract"]
    /\ UNCHANGED <<tickets, channels, chanCount, guildState, categoryState, supportRole,
                   saga, handler, delivery, llm>>

\* ------------------------------------------------------------ record store
\* TicketRepository is not part of the sources at hand; its operations follow
\* the record-store contract of the specification (sections 4.1, 4.2, 6).

MaxOf(S) == IF S = {} THEN 0 ELSE CHOOSE m \in S : \A x \in S : x <= m

\* createTicket(guild, creator, channel, category): the number is assigned
\* atomically with the insert, one greater than the running maximum.
RepoCreateTicket(tks, userId, channelId) ==
    Append(tks, [ ticketNumber |-> MaxOf({tks[i].ticketNumber : i \in DOMAIN tks}) + 1,
                  creatorId    |-> userId,
                  channelId    |-> channelId,
                  status       |-> OPEN,
                  claimedById  |-> NoUser,
                  closedById   |-> NoUser,
                  closeReason  |-> "none",
                  closedAt     |-> FALSE ])

\* updateTicketStatus(id, status, closedBy?, reason?): a write of OPEN clears
\* the close metadata; a write of CLOSED records who, why and when; a write of
\* ARCHIVED records who and why.  claimedById is not touched.
RepoUpdateTicketStatus(tks, id, status, actor, reason) ==
    [tks EXCEPT ![id] =
        IF status = OPEN
        THEN [@ EXCEPT !.status = OPEN, !.closedById = NoUser,
                       !.closeReason = "none", !.closedAt = FALSE]
        ELSE [@ EXCEPT !.status = status, !.closedById = actor,
                       !.closeReason = reason,
                       !.closedAt = IF status = CLOSED THEN TRUE ELSE @]]

\* getTicketByChannelId(channelId): the ticket bound to the channel, or none.
RepoTicketByChannel(tks, channelId) ==
    LET hits == {i \in DOMAIN tks : tks[i].channelId = channelId}
    IN IF hits = {} THEN NoTicket ELSE CHOOSE i \in hits : \A j \in hits : i <= j

\* claimTicket(id, userId) and unclaimTicket(id): setClaimant of the contract,
\* an unconditional write of the claimant.
RepoClaimTicket(tks, id, userId) == [tks EXCEPT ![id].claimedById = userId]

RepoUnclaimTicket(tks, id) == [tks EXCEPT ![id].claimedById = NoUser]

\* ------------------------------------------------------------ creation saga
NoResult == [success |-> FALSE, error |-> "pending", ticket |-> NoTicket,
             channel |-> NoChannel, ticketNumber |-> 0]

Failure(msg) == [success |-> FALSE, error |-> msg, ticket |-> NoTicket,
                 channel |-> NoChannel, ticketNumber |-> 0]

IdleSaga == [pc |-> "idle", userId |-> NoUser, existing |-> NoTicket,
             createdChannel |-> NoChannel, ticket |-> NoTicket,
             thrownAt |-> "none", deleteRequested |-> NoChannel,
             deleteOk |-> FALSE, welcome |-> "none", result |-> NoResult]

\* userOpenTickets of checkExistingTicket: the creator's OPEN tickets, in the
\* order the store returned them.
UserOpenTickets(tks, userId) ==
    SelectSeq([i \in DOMAIN tks |-> i],
              LAMBDA i : tks[i].creatorId = userId /\ tks[i].status = OPEN)

\* createTicket is called: options.userId is the requesting user.  Executions
\* are numbered in the order they start.
StartSaga(s, u) ==
    /\ saga[s].pc = "idle"
    /\ \A r \in Sagas : r < s => saga[r].pc # "idle"
    /\ saga' = [saga EXCEPT ![s] = [@ EXCEPT !.pc = "check", !.userId = u]]
    /\ UNCHANGED <<tickets, channels, chanCount, config, handler, delivery>>

\* A check that refuses the member while another call for the same member is
\* between its check and its insert.
SagaCheckReadLocked(s) ==
    /\ saga[s].pc = "check"
    /\ \E ok \in BOOLEAN :
         LET open == UserOpenTickets(tickets, saga[s].userId) IN
         IF \E o \in Sagas \ {s} : /\ saga[o].userId = saga[s].userId
                                      /\ saga[o].pc \in {"validate", "provision", "persist"}
         THEN saga' = [saga EXCEPT ![s] =
                 [@ EXCEPT !.pc = "done", !.result = Failure("duplicate")]]
         ELSE IF ~ok
         THEN \* catch: logs, returns null
              saga' = [saga EXCEPT ![s] = [@ EXCEPT !.pc = "validate"]]
         ELSE IF Len(open) > 0
              THEN LET existingTicket == open[1] IN
                   IF tickets[existingTicket].channelId \in channels
                   THEN saga' = [saga EXCEPT ![s] =
                            [@ EXCEPT !.pc = "done", !.existing = existingTicket,
                                      !.result = Failure("duplicate")]]
                   ELSE saga' = [saga EXCEPT ![s] =
                            [@ EXCEPT !.pc = "heal", !.existing = existingTicket]]
              ELSE saga' = [saga EXCEPT ![s] = [@ EXCEPT !.pc = "validate"]]
    /\ UNCHANGED <<tickets, channels, chanCount, config, handler, delivery>>

\* A check whose store error ends createTicket with a failure.
SagaCheckReadFailsClosed(s) ==
    /\ saga[s].pc = "check"
    /\ \E ok \in BOOLEAN :
         LET open == UserOpenTickets(tickets, saga[s].userId) IN
         IF ~ok
         THEN saga' = [saga EXCEPT ![s] =
                 [@ EXCEPT !.pc = "done", !.result = Failure("unexpected")]]
         ELSE IF Len(open) > 0
              THEN LET existingTicket == open[1] IN
                   IF tickets[existingTicket].channelId \in channels
                   THEN saga' = [saga EXCEPT ![s] =
                            [@ EXCEPT !.pc = "done", !.existing = existingTicket,
                                      !.result = Failure("duplicate")]]
                   ELSE saga' = [saga EXCEPT ![s] =
                            [@ EXCEPT !.pc = "heal", !.existing = existingTicket]]
              ELSE saga' = [saga EXCEPT ![s] = [@ EXCEPT !.pc = "validate"]]
    /\ UNCHANGED <<tickets, channels, chanCount, config, handler, delivery>>

\* checkExistingTicket up to its first await and the code that runs when
\* getGuildTickets settles: filter, take the first OPEN ticket of the user,
\* look its channel up in the cache.
SagaCheckRead(s) ==
    /\ saga[s].pc = "check"
    /\ \E ok \in BOOLEAN :
         LET open == UserOpenTickets(tickets, saga[s].userId) IN
         IF ~ok
         THEN \* catch: logs, returns null
              saga' = [saga EXCEPT ![s] = [@ EXCEPT !.pc = "validate"]]
         ELSE IF Len(open) > 0
              THEN LET existingTicket == open[1] IN
                   IF tickets[existingTicket].channelId \in channels
                   THEN saga' = [saga EXCEPT ![s] =
                            [@ EXCEPT !.pc = "done", !.existing = existingTicket,
                                      !.result = Failure("duplicate")]]
                   ELSE saga' = [saga EXCEPT ![s] =
                            [@ EXCEPT !.pc = "heal", !.existing = existingTicket]]
              ELSE saga' = [saga EXCEPT ![s] = [@ EXCEPT !.pc = "validate"]]
    /\ UNCHANGED <<tickets, channels, chanCount, config, handler, delivery>>

\* The stale ticket is closed by "system"; a failing write is caught and the
\* check returns null either way.
SagaCheckHeal(s) ==
    /\ saga[s].pc = "heal"
    /\ \E ok \in BOOLEAN :
         tickets' = IF ok
                    THEN RepoUpdateTicketStatus(tickets, saga[s].existing, CLOSED,
                                                SystemUser, "Ticket channel was deleted")
                    ELSE tickets
    /\ saga' = [saga EXCEPT ![s] = [@ EXCEPT !.pc = "validate"]]
    /\ UNCHANGED <<channels, chanCount, config, handler, delivery>>

\* A validation that does not look at the category's isEnabled flag.
SagaValidateCategoryExists(s) ==
    /\ saga[s].pc = "validate"
    /\ \E ok \in BOOLEAN, guildCached \in BOOLEAN :
         saga' = [saga EXCEPT ![s] =
            IF ~ok \/ guildState # "enabled" \/ categoryState = "missing"
            THEN [@ EXCEPT !.pc = "done", !.result = Failure("validation")]
            ELSE IF ~guildCached
            THEN [@ EXCEPT !.pc = "done", !.result = Failure("server not found")]
            ELSE [@ EXCEPT !.pc = "provision"]]
    /\ UNCHANGED <<tickets, channels, chanCount, config, handler, delivery>>

\* validateCreationPrerequisites, then the guild lookup in the cache.
SagaValidate(s) ==
    /\ saga[s].pc = "validate"
    /\ \E ok \in BOOLEAN, guildCached \in BOOLEAN :
         saga' = [saga EXCEPT ![s] =
            IF ~ok \/ guildState # "enabled" \/ categoryState # "enabled"
            THEN [@ EXCEPT !.pc = "done", !.result = Failure("validation")]
            ELSE IF ~guildCached
            THEN [@ EXCEPT !.pc = "done", !.result = Failure("server not found")]
            ELSE [@ EXCEPT !.pc = "provision"]]
    /\ UNCHANGED <<tickets, channels, chanCount, config, handler, delivery>>

\* A createTicket that does not test the channel for null and carries on.
SagaProvisionUnchecked(s) ==
    /\ saga[s].pc = "provision"
    /\ \E ok \in BOOLEAN :
         IF ok
         THEN /\ chanCount' = chanCount + 1
              /\ channels' = channels \cup {chanCount + 1}
              /\ saga' = [saga EXCEPT ![s] =
                    [@ EXCEPT !.pc = "persist", !.createdChannel = chanCount + 1]]
         ELSE /\ saga' = [saga EXCEPT ![s] = [@ EXCEPT !.pc = "persist"]]
              /\ UNCHANGED <<channels, chanCount>>
    /\ UNCHANGED <<tickets, config, handler, delivery>>

\* A createTicket that names the channel before the record exists.
SagaProvisionThenRename(s) ==
    /\ saga[s].pc = "provision"
    /\ \E ok \in BOOLEAN :
         IF ok
         THEN /\ chanCount' = chanCount + 1
              /\ channels' = channels \cup {chanCount + 1}
              /\ saga' = [saga EXCEPT ![s] =
                    [@ EXCEPT !.pc = "rename", !.createdChannel = chanCount + 1]]
         ELSE /\ saga' = [saga EXCEPT ![s] =
                    [@ EXCEPT !.pc = "done", !.result = Failure("channel")]]
              /\ UNCHANGED <<channels, chanCount>>
    /\ UNCHANGED <<tickets, config, handler, delivery>>

\* createDiscordChannel: guild.channels.create; the support-role overwrite is
\* best effort and never changes the outcome.  null on failure.
SagaProvision(s) ==
    /\ saga[s].pc = "provision"
    /\ \E ok \in BOOLEAN :
         IF ok
         THEN /\ chanCount' = chanCount + 1
              /\ channels' = channels \cup {chanCount + 1}
              /\ saga' = [saga EXCEPT ![s] =
                    [@ EXCEPT !.pc = "persist", !.createdChannel = chanCount + 1]]
         ELSE /\ saga' = [saga EXCEPT ![s] =
                    [@ EXCEPT !.pc = "done", !.result = Failure("channel")]]
              /\ UNCHANGED <<channels, chanCount>>
    /\ UNCHANGED <<tickets, config, handler, delivery>>

\* A persist that numbers each member's tickets on their own.
SagaPersistPerUserNumber(s) ==
    /\ saga[s].pc = "persist"
    /\ \E ok \in BOOLEAN :
         IF ok
         THEN /\ tickets' =
                   [RepoCreateTicket(tickets, saga[s].userId, saga[s].createdChannel)
                      EXCEPT ![Len(tickets) + 1].ticketNumber =
                         Cardinality({i \in DOMAIN tickets :
                                         tickets[i].creatorId = saga[s].userId}) + 1]
              /\ saga' = [saga EXCEPT ![s] =
                    [@ EXCEPT !.pc = "rename", !.ticket = Len(tickets) + 1]]
         ELSE /\ saga' = [saga EXCEPT ![s] =
                    [@ EXCEPT !.pc = "catch", !.thrownAt = "persist"]]
              /\ UNCHANGED tickets
    /\ UNCHANGED <<channels, chanCount, config, handler, delivery>>

\* ticketRepo.createTicket; a throw lands in the catch block.
SagaPersist(s) ==
    /\ saga[s].pc = "persist"
    /\ \E ok \in BOOLEAN :
         IF ok
         THEN /\ tickets' = RepoCreateTicket(tickets, saga[s].userId, saga[s].createdChannel)
              /\ saga' = [saga EXCEPT ![s] =
                    [@ EXCEPT !.pc = "rename", !.ticket = Len(tickets) + 1]]
         ELSE /\ saga' = [saga EXCEPT ![s] =
                    [@ EXCEPT !.pc = "catch", !.thrownAt = "persist"]]
              /\ UNCHANGED tickets
    /\ UNCHANGED <<channels, chanCount, config, handler, delivery>>

\* createdChannel.setName inside the same try block: a throw lands in the
\* catch block as well.
SagaRename(s) ==
    /\ saga[s].pc = "rename"
    /\ \E ok \in BOOLEAN :
         saga' = [saga EXCEPT ![s] =
            IF ok /\ saga[s].createdChannel \in channels
            THEN [@ EXCEPT !.pc = "welcome"]
            ELSE [@ EXCEPT !.pc = "catch", !.thrownAt = "rename"]]
    /\ UNCHANGED <<tickets, channels, chanCount, config, handler, delivery>>

\* A sendWelcomeMessage that lets the error of channel.send escape into the
\* catch block of createTicket.
SagaWelcomeThrows(s) ==
    /\ saga[s].pc = "welcome"
    /\ \E ok \in BOOLEAN :
         saga' = [saga EXCEPT ![s] =
            IF ok
            THEN [@ EXCEPT !.pc = "done", !.welcome = "sent",
                           !.result = [success |-> TRUE, error |-> "none",
                                       ticket |-> saga[s].ticket,
                                       channel |-> saga[s].createdChannel,
                                       ticketNumber |-> tickets[saga[s].ticket].ticketNumber]]
            ELSE [@ EXCEPT !.pc = "catch", !.welcome = "failed", !.thrownAt = "welcome"]]
    /\ UNCHANGED <<tickets, channels, chanCount, config, handler, delivery>>

\* A success result built from the newest record of the store.
SagaWelcomeReturnsNewest(s) ==
    /\ saga[s].pc = "welcome"
    /\ \E ok \in BOOLEAN :
         saga' = [saga EXCEPT ![s] =
            [@ EXCEPT !.pc = "done",
                      !.welcome = IF ok THEN "sent" ELSE "failed",
                      !.result = [success |-> TRUE, error |-> "none",
                                  ticket |-> Len(tickets),
                                  channel |-> saga[s].createdChannel,
                                  ticketNumber |-> tickets[Len(tickets)].ticketNumber]]]
    /\ UNCHANGED <<tickets, channels, chanCount, config, handler, delivery>>

\* sendWelcomeMessage catches its own errors and returns a boolean that is
\* only logged; createTicket then returns the success result.
SagaWelcome(s) ==
    /\ saga[s].pc = "welcome"
    /\ \E ok \in BOOLEAN :
         saga' = [saga EXCEPT ![s] =
            [@ EXCEPT !.pc = "done",
                      !.welcome = IF ok THEN "sent" ELSE "failed",
                      !.result = [success |-> TRUE, error |-> "none",
                                  ticket |-> saga[s].ticket,
                                  channel |-> saga[s].createdChannel,
                                  ticketNumber |-> tickets[saga[s].ticket].ticketNumber]]]
    /\ UNCHANGED <<tickets, channels, chanCount, config, handler, delivery>>

\* The catch block of createTicket without its cleanup.
SagaCatchNoCleanup(s) ==
    /\ saga[s].pc = "catch"
    /\ saga' = [saga EXCEPT ![s] = [@ EXCEPT !.pc = "done", !.result = Failure("unexpected")]]
    /\ UNCHANGED <<tickets, channels, chanCount, config, handler, delivery>>

\* A catch block whose failing cleanup is not caught: the call ends without
\* a result.
SagaCatchCleanupThrows(s) ==
    /\ saga[s].pc = "catch"
    /\ \E ok \in BOOLEAN :
         IF saga[s].createdChannel # NoChannel
         THEN /\ channels' = IF ok THEN channels \ {saga[s].createdChannel} ELSE channels
              /\ saga' = [saga EXCEPT ![s] =
                    [@ EXCEPT !.pc = "done",
                              !.deleteRequested = saga[s].createdChannel,
                              !.deleteOk = ok /\ saga[s].createdChannel \in channels,
                              !.result = IF ok THEN Failure("unexpected") ELSE NoResult]]
         ELSE /\ saga' = [saga EXCEPT ![s] =
                    [@ EXCEPT !.pc = "done", !.result = Failure("unexpected")]]
              /\ UNCHANGED channels
    /\ UNCHANGED <<tickets, chanCount, config, handler, delivery>>

\* The catch block of createTicket: delete createdChannel when it is set (a
\* failing delete is only logged), return the failure result.
SagaCatch(s) ==
    /\ saga[s].pc = "catch"
    /\ \E ok \in BOOLEAN :
         IF saga[s].createdChannel # NoChannel
         THEN /\ channels' = IF ok THEN channels \ {saga[s].createdChannel} ELSE channels
              /\ saga' = [saga EXCEPT ![s] =
                    [@ EXCEPT !.pc = "done",
                              !.deleteRequested = saga[s].createdChannel,
                              !.deleteOk = ok /\ saga[s].createdChannel \in channels,
                              !.result = Failure("unexpected")]]
         ELSE /\ saga' = [saga EXCEPT ![s] =
                    [@ EXCEPT !.pc = "done", !.result = Failure("unexpected")]]
              /\ UNCHANGED channels
    /\ UNCHANGED <<tickets, chanCount, config, handler, delivery>>

\* ---------------------------------------------------------- button handlers
\* One execution of a handler of the InteractionCreate event: the button's
\* kind, the clicking member (id, ManageChannels permission, membership of
\* the category's support role), the channel of the click, and the handler's
\* locals: the ticket it read and what it saw.
IdleHandler == [pc |-> "idle", kind |-> "none", actor |-> NoUser,
                channelId |-> NoChannel, manage |-> FALSE, inRole |-> FALSE,
                ticket |-> NoTicket, seenStatus |-> "none", seenReason |-> "none",
                outcome |-> "none", collected |-> 0, endReason |-> "none",
                timeouts |-> 0]

\* A component interaction as the collector receives it.
NewDelivery(h, user, customId) ==
    [pc |-> "defer", gate |-> h, customId |-> customId, user |-> user,
     closedWritten |-> FALSE, removal |-> "none", reportedTo |-> NoUser,
     outcome |-> "none"]

\* The bag of interactions with the record r replaced by q.
Replaced(r, q) == (delivery (-) SetToBag({r})) (+) SetToBag({q})

\* The members seen so far: ticket creators, saga callers, button clickers.
KnownUsers ==
    ({tickets[i].creatorId : i \in DOMAIN tickets}
        \cup {saga[s].userId : s \in Sagas}
        \cup {handler[h].actor : h \in Handlers}) \ {NoUser}

\* A button is clicked in an existing channel; event.execute routes on
\* interaction.customId.  Executions are numbered in the order they start,
\* and members in the order they first appear.
Dispatch(h, kind, actor, c, manage, inRole) ==
    /\ handler[h].pc = "idle"
    /\ \A g \in Handlers : g < h => handler[g].pc # "idle"
    /\ actor <= MaxOf(KnownUsers) + 1
    /\ c \in channels
    /\ handler' = [handler EXCEPT ![h] =
          [@ EXCEPT !.pc = "read", !.kind = kind, !.actor = actor, !.channelId = c,
                    !.manage = manage, !.inRole = inRole]]
    /\ UNCHANGED <<tickets, channels, chanCount, config, saga, delivery>>

DispatchClaim(h) ==
    \E actor \in Users, c \in channels, manage \in BOOLEAN, inRole \in BOOLEAN :
        Dispatch(h, "claim", actor, c, manage, inRole)

\* hasPermission of handleClaimButton.
HasClaimPermission(h) == handler[h].manage \/ (supportRole /\ handler[h].inRole)

\* handleClaimButton with the exclusion rule dropped for members who hold
\* ManageChannels: they take a claimed ticket over.
ClaimReadTakeover(h) ==
    /\ handler[h].pc = "read" /\ handler[h].kind = "claim"
    /\ \E ok \in BOOLEAN :
         LET t == RepoTicketByChannel(tickets, handler[h].channelId) IN
         handler' = [handler EXCEPT ![h] =
            IF ~ok THEN [@ EXCEPT !.pc = "done", !.outcome = "error"]
            ELSE IF t = NoTicket THEN [@ EXCEPT !.pc = "done", !.outcome = "notTicket"]
            ELSE IF tickets[t].claimedById = handler[h].actor
                 THEN [@ EXCEPT !.pc = "unclaim", !.ticket = t,
                                !.seenStatus = tickets[t].status]
            ELSE IF HasClaimPermission(h)
                 THEN [@ EXCEPT !.pc = "claim", !.ticket = t,
                                !.seenStatus = tickets[t].status]
            ELSE [@ EXCEPT !.pc = "done", !.ticket = t, !.outcome = "denied"]]
    /\ UNCHANGED <<tickets, channels, chanCount, config, saga, delivery>>

\* A claim button without the toggle: a member's second click on their own
\* claim is answered like a click on someone else's.
ClaimReadNoToggle(h) ==
    /\ handler[h].pc = "read" /\ handler[h].kind = "claim"
    /\ \E ok \in BOOLEAN :
         LET t == RepoTicketByChannel(tickets, handler[h].channelId) IN
         handler' = [handler EXCEPT ![h] =
            IF ~ok THEN [@ EXCEPT !.pc = "done", !.outcome = "error"]
            ELSE IF t = NoTicket THEN [@ EXCEPT !.pc = "done", !.outcome = "notTicket"]
            ELSE IF tickets[t].claimedById # NoUser
                 THEN [@ EXCEPT !.pc = "done", !.ticket = t, !.outcome = "alreadyClaimed"]
            ELSE IF HasClaimPermission(h)
                 THEN [@ EXCEPT !.pc = "claim", !.ticket = t,
                                !.seenStatus = tickets[t].status]
            ELSE [@ EXCEPT !.pc = "done", !.ticket = t, !.outcome = "denied"]]
    /\ UNCHANGED <<tickets, channels, chanCount, config, saga, delivery>>

\* A claim button that takes membership of any role for the support role,
\* also when the category has none.
ClaimReadAnyRole(h) ==
    /\ handler[h].pc = "read" /\ handler[h].kind = "claim"
    /\ \E ok \in BOOLEAN :
         LET t == RepoTicketByChannel(tickets, handler[h].channelId) IN
         handler' = [handler EXCEPT ![h] =
            IF ~ok THEN [@ EXCEPT !.pc = "done", !.outcome = "error"]
            ELSE IF t = NoTicket THEN [@ EXCEPT !.pc = "done", !.outcome = "notTicket"]
            ELSE IF tickets[t].claimedById # NoUser
                 THEN IF tickets[t].claimedById = handler[h].actor
                      THEN [@ EXCEPT !.pc = "unclaim", !.ticket = t,
                                     !.seenStatus = tickets[t].status]
                      ELSE [@ EXCEPT !.pc = "done", !.ticket = t,
                                     !.outcome = "alreadyClaimed"]
            ELSE IF handler[h].manage \/ handler[h].inRole
                 THEN [@ EXCEPT !.pc = "claim", !.ticket = t,
                                !.seenStatus = tickets[t].status]
            ELSE [@ EXCEPT !.pc = "done", !.ticket = t, !.outcome = "denied"]]
    /\ UNCHANGED <<tickets, channels, chanCount, config, saga, delivery>>

\* handleClaimButton from its entry to the await that follows the branch
\* taken: getTicketByChannelId, then the claimedById test, then the
\* permission test, all on the ticket as read.
ClaimRead(h) ==
    /\ handler[h].pc = "read" /\ handler[h].kind = "claim"
    /\ \E ok \in BOOLEAN :
         LET t == RepoTicketByChannel(tickets, handler[h].channelId) IN
         handler' = [handler EXCEPT ![h] =
            IF ~ok THEN [@ EXCEPT !.pc = "done", !.outcome = "error"]
            ELSE IF t = NoTicket THEN [@ EXCEPT !.pc = "done", !.outcome = "notTicket"]
            ELSE IF tickets[t].claimedById # NoUser
                 THEN IF tickets[t].claimedById = handler[h].actor
                      THEN [@ EXCEPT !.pc = "unclaim", !.ticket = t,
                                     !.seenStatus = tickets[t].status]
                      ELSE [@ EXCEPT !.pc = "done", !.ticket = t,
                                     !.outcome = "alreadyClaimed"]
            ELSE IF HasClaimPermission(h)
                 THEN [@ EXCEPT !.pc = "claim", !.ticket = t,
                                !.seenStatus = tickets[t].status]
            ELSE [@ EXCEPT !.pc = "done", !.ticket = t, !.outcome = "denied"]]
    /\ UNCHANGED <<tickets, channels, chanCount, config, saga, delivery>>

\* deferReply, claimTicket(ticket.id, user), then the notifications; a throw
\* before the write leaves the record alone, a throw after it only changes
\* the reply.
ClaimWrite(h) ==
    /\ handler[h].pc = "claim"
    /\ \E ok \in BOOLEAN, notified \in BOOLEAN :
         /\ tickets' = IF ok THEN RepoClaimTicket(tickets, handler[h].ticket, handler[h].actor)
                             ELSE tickets
         /\ handler' = [handler EXCEPT ![h] =
               [@ EXCEPT !.pc = "done",
                         !.outcome = IF ~ok THEN "error"
                                     ELSE IF notified THEN "claimed" ELSE "claimedNoNotice"]]
    /\ UNCHANGED <<channels, chanCount, config, saga, delivery>>

\* deferReply, unclaimTicket(ticket.id), then the notifications.
UnclaimWrite(h) ==
    /\ handler[h].pc = "unclaim"
    /\ \E ok \in BOOLEAN, notified \in BOOLEAN :
         /\ tickets' = IF ok THEN RepoUnclaimTicket(tickets, handler[h].ticket) ELSE tickets
         /\ handler' = [handler EXCEPT ![h] =
               [@ EXCEPT !.pc = "done",
                         !.outcome = IF ~ok THEN "error"
                                     ELSE IF notified THEN "unclaimed" ELSE "unclaimedNoNotice"]]
    /\ UNCHANGED <<channels, chanCount, config, saga, delivery>>

\* ---------------------------------------------------- close, reopen, archive
\* These handlers never read the member's permissions.
DispatchClose(h) ==
    \E actor \in Users, c \in channels : Dispatch(h, "close", actor, c, FALSE, FALSE)

DispatchReopen(h) ==
    \E actor \in Users, c \in channels : Dispatch(h, "reopen", actor, c, FALSE, FALSE)

DispatchArchive(h) ==
    \E actor \in Users, c \in channels : Dispatch(h, "archive", actor, c, FALSE, FALSE)

\* The handler's local `ticket` after getTicketByChannelId.
Seen(h, t) ==
    [handler[h] EXCEPT !.ticket = t, !.seenStatus = tickets[t].status,
                       !.seenReason = tickets[t].closeReason]

\* A close button that shows the reason modal whatever the ticket's status.
CloseReadUnguarded(h) ==
    /\ handler[h].pc = "read" /\ handler[h].kind = "close"
    /\ \E ok \in BOOLEAN :
         LET t == RepoTicketByChannel(tickets, handler[h].channelId) IN
         handler' = [handler EXCEPT ![h] =
            IF ~ok THEN [@ EXCEPT !.pc = "done", !.outcome = "error"]
            ELSE IF t = NoTicket THEN [@ EXCEPT !.pc = "done", !.outcome = "notTicket"]
            ELSE [Seen(h, t) EXCEPT !.pc = "modal"]]
    /\ UNCHANGED <<tickets, channels, chanCount, config, saga, delivery>>

\* handleCloseButton: the ticket must be OPEN, then the reason modal is shown.
CloseRead(h) ==
    /\ handler[h].pc = "read" /\ handler[h].kind = "close"
    /\ \E ok \in BOOLEAN :
         LET t == RepoTicketByChannel(tickets, handler[h].channelId) IN
         handler' = [handler EXCEPT ![h] =
            IF ~ok THEN [@ EXCEPT !.pc = "done", !.outcome = "error"]
            ELSE IF t = NoTicket THEN [@ EXCEPT !.pc = "done", !.outcome = "notTicket"]
            ELSE IF tickets[t].status # OPEN
                 THEN [Seen(h, t) EXCEPT !.pc = "done", !.outcome = "invalidTransition"]
            ELSE [Seen(h, t) EXCEPT !.pc = "modal"]]
    /\ UNCHANGED <<tickets, channels, chanCount, config, saga, delivery>>

\* The submit of ticket_close_modal is handled outside the sources at hand:
\* close of the specification (4.1), legal only from OPEN, writes CLOSED with
\* the actor and the reason.
CloseSubmit(h) ==
    /\ handler[h].pc = "modal"
    /\ \E ok \in BOOLEAN :
         LET t == handler[h].ticket IN
         IF ok /\ tickets[t].status = OPEN
         THEN /\ tickets' = RepoUpdateTicketStatus(tickets, t, CLOSED, handler[h].actor,
                                                   "reason given by the actor")
              /\ handler' = [handler EXCEPT ![h] = [@ EXCEPT !.pc = "done", !.outcome = "closed"]]
         ELSE /\ handler' = [handler EXCEPT ![h] =
                    [@ EXCEPT !.pc = "done",
                              !.outcome = IF ok THEN "invalidTransition" ELSE "error"]]
              /\ UNCHANGED tickets
    /\ UNCHANGED <<channels, chanCount, config, saga, delivery>>

\* A reopen that is accepted from CLOSED only.
ReopenReadClosedOnly(h) ==
    /\ handler[h].pc = "read" /\ handler[h].kind = "reopen"
    /\ \E ok \in BOOLEAN :
         LET t == RepoTicketByChannel(tickets, handler[h].channelId) IN
         handler' = [handler EXCEPT ![h] =
            IF ~ok THEN [@ EXCEPT !.pc = "done", !.outcome = "error"]
            ELSE IF t = NoTicket THEN [@ EXCEPT !.pc = "done", !.outcome = "notTicket"]
            ELSE IF tickets[t].status # CLOSED
                 THEN [Seen(h, t) EXCEPT !.pc = "done", !.outcome = "invalidTransition"]
            ELSE [Seen(h, t) EXCEPT !.pc = "write"]]
    /\ UNCHANGED <<tickets, channels, chanCount, config, saga, delivery>>

\* handleReopenButton up to the status write: deferReply, read, the
\* already-open test.
ReopenRead(h) ==
    /\ handler[h].pc = "read" /\ handler[h].kind = "reopen"
    /\ \E ok \in BOOLEAN :
         LET t == RepoTicketByChannel(tickets, handler[h].channelId) IN
         handler' = [handler EXCEPT ![h] =
            IF ~ok THEN [@ EXCEPT !.pc = "done", !.outcome = "error"]
            ELSE IF t = NoTicket THEN [@ EXCEPT !.pc = "done", !.outcome = "notTicket"]
            ELSE IF tickets[t].status = OPEN
                 THEN [Seen(h, t) EXCEPT !.pc = "done", !.outcome = "invalidTransition"]
            ELSE [Seen(h, t) EXCEPT !.pc = "write"]]
    /\ UNCHANGED <<tickets, channels, chanCount, config, saga, delivery>>

\* What the reopen handler reports after the status write: the notice in the
\* channel may throw (outer catch), the permission writes may throw (inner
\* catch, a warning).
ReopenReply(sent, permsOk) ==
    IF ~sent THEN "errorAfterWrite" ELSE IF permsOk THEN "reopened" ELSE "reopenedNoPermissions"

\* A reopen that replies without having written the status.
ReopenWriteSkipped(h) ==
    /\ handler[h].pc = "write" /\ handler[h].kind = "reopen"
    /\ \E sent \in BOOLEAN, permsOk \in BOOLEAN :
         handler' = [handler EXCEPT ![h] =
            [@ EXCEPT !.pc = "done", !.outcome = ReopenReply(sent, permsOk)]]
    /\ UNCHANGED <<tickets, channels, chanCount, config, saga, delivery>>

\* A reopen that puts the status back when the message to the channel or a
\* permission overwrite failed.
ReopenWriteRollsBack(h) ==
    /\ handler[h].pc = "write" /\ handler[h].kind = "reopen"
    /\ \E ok \in BOOLEAN, sent \in BOOLEAN, permsOk \in BOOLEAN :
         /\ tickets' = IF ok /\ sent /\ permsOk
                       THEN RepoUpdateTicketStatus(tickets, handler[h].ticket, OPEN,
                                                   NoUser, "none")
                       ELSE tickets
         /\ handler' = [handler EXCEPT ![h] =
               [@ EXCEPT !.pc = "done",
                         !.outcome = IF ok THEN ReopenReply(sent, permsOk) ELSE "error"]]
    /\ UNCHANGED <<channels, chanCount, config, saga, delivery>>

\* updateTicketStatus(ticket.id, OPEN), then channel.send, the permission
\* overwrites and the reply.  Nothing after the write touches the record.
ReopenWrite(h) ==
    /\ handler[h].pc = "write" /\ handler[h].kind = "reopen"
    /\ \E ok \in BOOLEAN, sent \in BOOLEAN, permsOk \in BOOLEAN :
         /\ tickets' = IF ok
                       THEN RepoUpdateTicketStatus(tickets, handler[h].ticket, OPEN,
                                                   NoUser, "none")
                       ELSE tickets
         /\ handler' = [handler EXCEPT ![h] =
               [@ EXCEPT !.pc = "done",
                         !.outcome = IF ok THEN ReopenReply(sent, permsOk) ELSE "error"]]
    /\ UNCHANGED <<channels, chanCount, config, saga, delivery>>

\* handleArchiveButton up to the status write.
ArchiveRead(h) ==
    /\ handler[h].pc = "read" /\ handler[h].kind = "archive"
    /\ \E ok \in BOOLEAN :
         LET t == RepoTicketByChannel(tickets, handler[h].channelId) IN
         handler' = [handler EXCEPT ![h] =
            IF ~ok THEN [@ EXCEPT !.pc = "done", !.outcome = "error"]
            ELSE IF t = NoTicket THEN [@ EXCEPT !.pc = "done", !.outcome = "notTicket"]
            ELSE IF tickets[t].status = ARCHIVED
                 THEN [Seen(h, t) EXCEPT !.pc = "done", !.outcome = "invalidTransition"]
            ELSE [Seen(h, t) EXCEPT !.pc = "write"]]
    /\ UNCHANGED <<tickets, channels, chanCount, config, saga, delivery>>

\* An archive that passes neither the actor nor a reason to the store.
ArchiveWriteNoActor(h) ==
    /\ handler[h].pc = "write" /\ handler[h].kind = "archive"
    /\ \E ok \in BOOLEAN, sent \in BOOLEAN :
         /\ tickets' = IF ok
                       THEN RepoUpdateTicketStatus(tickets, handler[h].ticket, ARCHIVED,
                                                   NoUser, "none")
                       ELSE tickets
         /\ handler' = [handler EXCEPT ![h] =
               [@ EXCEPT !.pc = "done",
                         !.outcome = IF ~ok THEN "error"
                                     ELSE IF sent THEN "archived" ELSE "errorAfterWrite"]]
    /\ UNCHANGED <<channels, chanCount, config, saga, delivery>>

\* updateTicketStatus(ticket.id, ARCHIVED, user, "Ticket archived"), then the
\* notice and the reply.
ArchiveWrite(h) ==
    /\ handler[h].pc = "write" /\ handler[h].kind = "archive"
    /\ \E ok \in BOOLEAN, sent \in BOOLEAN :
         /\ tickets' = IF ok
                       THEN RepoUpdateTicketStatus(tickets, handler[h].ticket, ARCHIVED,
                                                   handler[h].actor, "Ticket archived")
                       ELSE tickets
         /\ handler' = [handler EXCEPT ![h] =
               [@ EXCEPT !.pc = "done",
                         !.outcome = IF ~ok THEN "error"
                                     ELSE IF sent THEN "archived" ELSE "errorAfterWrite"]]
    /\ UNCHANGED <<channels, chanCount, config, saga, delivery>>

\* ------------------------------------------------ delete and its collector
\* At most MaxGates delete buttons are pressed in a run.
DispatchDelete(h) ==
    /\ Cardinality({g \in Handlers : handler[g].kind = "delete"}) < MaxGates
    /\ \E actor \in Users, c \in channels, manage \in BOOLEAN :
          Dispatch(h, "delete", actor, c, manage, FALSE)

\* A delete button that shows the prompt to every member.
DeleteReadUnchecked(h) ==
    /\ handler[h].pc = "read" /\ handler[h].kind = "delete"
    /\ \E ok \in BOOLEAN, shown \in BOOLEAN :
         LET t == RepoTicketByChannel(tickets, handler[h].channelId) IN
         handler' = [handler EXCEPT ![h] =
            IF ~ok THEN [@ EXCEPT !.pc = "done", !.outcome = "error"]
            ELSE IF t = NoTicket THEN [@ EXCEPT !.pc = "done", !.outcome = "notTicket"]
            ELSE IF ~shown THEN [Seen(h, t) EXCEPT !.pc = "done", !.outcome = "error"]
            ELSE [Seen(h, t) EXCEPT !.pc = "gate"]]
    /\ UNCHANGED <<tickets, channels, chanCount, config, saga, delivery>>

\* handleDeleteButton up to createMessageComponentCollector: deferReply,
\* read, the ManageChannels test, the confirm/cancel prompt.  pc = "gate"
\* is a collector that has not ended.
DeleteRead(h) ==
    /\ handler[h].pc = "read" /\ handler[h].kind = "delete"
    /\ \E ok \in BOOLEAN, shown \in BOOLEAN :
         LET t == RepoTicketByChannel(tickets, handler[h].channelId) IN
         handler' = [handler EXCEPT ![h] =
            IF ~ok THEN [@ EXCEPT !.pc = "done", !.outcome = "error"]
            ELSE IF t = NoTicket THEN [@ EXCEPT !.pc = "done", !.outcome = "notTicket"]
            ELSE IF ~handler[h].manage
                 THEN [Seen(h, t) EXCEPT !.pc = "done", !.outcome = "denied"]
            ELSE IF ~shown THEN [Seen(h, t) EXCEPT !.pc = "done", !.outcome = "error"]
            ELSE [Seen(h, t) EXCEPT !.pc = "gate"]]
    /\ UNCHANGED <<tickets, channels, chanCount, config, saga, delivery>>

CustomIds == {"confirm_delete", "cancel_delete", "ticket_close"}

\* A filter that takes the two buttons from any member.
FilterAcceptsAnyUser(h, user, customId) ==
    customId \in {"confirm_delete", "cancel_delete"}

\* The collector's filter: one of the two buttons, pressed by the member who
\* asked for the deletion.
FilterAccepts(h, user, customId) ==
    /\ customId \in {"confirm_delete", "cancel_delete"}
    /\ user = handler[h].actor

\* A component interaction on the prompt reaches a collector that has not
\* ended: it is dropped by the filter, or collected and handed to the
\* 'collect' listener.
Deliver(h, user, customId) ==
    /\ BagCardinality(delivery) < MaxDeliveries
    /\ handler[h].pc = "gate"
    /\ handler[h].channelId \in channels
    /\ IF FilterAccepts(h, user, customId)
       THEN /\ delivery' = delivery (+) SetToBag({NewDelivery(h, user, customId)})
            /\ handler' = [handler EXCEPT ![h].collected = @ + 1]
       ELSE /\ delivery' = delivery (+) SetToBag({
                  [NewDelivery(h, user, customId) EXCEPT !.pc = "done",
                                                         !.outcome = "filtered"]})
            /\ UNCHANGED handler
    /\ UNCHANGED <<tickets, channels, chanCount, config, saga>>

\* A window that reports the timeout whatever was collected.
GateTimeoutAlways(h) ==
    /\ handler[h].pc = "gate"
    /\ handler' = [handler EXCEPT ![h] =
          [@ EXCEPT !.pc = "ended", !.endReason = "time", !.timeouts = @ + 1]]
    /\ UNCHANGED <<tickets, channels, chanCount, config, saga, delivery>>

\* The 30000 ms window elapses on a collector that has not ended: it ends
\* with reason "time", and the 'end' listener reports the timeout when
\* nothing was collected.
GateTimeout(h) ==
    /\ handler[h].pc = "gate"
    /\ handler' = [handler EXCEPT ![h] =
          [@ EXCEPT !.pc = "ended", !.endReason = "time",
                    !.timeouts = IF handler[h].collected = 0 THEN @ + 1 ELSE @]]
    /\ UNCHANGED <<tickets, channels, chanCount, config, saga, delivery>>

\* A stop() that leaves the collector running until its window is over.
CollectorStopIgnored(h) == handler

\* collector.stop(): ends the collector unless it has ended; the 'end'
\* listener then sees a reason other than "time".
CollectorStop(h) ==
    IF handler[h].pc = "gate"
    THEN [handler EXCEPT ![h] = [@ EXCEPT !.pc = "ended", !.endReason = "user"]]
    ELSE handler

\* 'collect' listener: await i.deferUpdate(); a throw is caught by the
\* listener's catch, which does not stop the collector.
CollectDefer ==
  \E r \in BagToSet(delivery) :
      /\ r.pc = "defer"
      /\ \E ok \in BOOLEAN :
           delivery' = Replaced(r,
              IF ~ok THEN [r EXCEPT !.pc = "done", !.outcome = "error"]
              ELSE IF r.customId = "cancel_delete" THEN [r EXCEPT !.pc = "cancel"]
              ELSE [r EXCEPT !.pc = "write"])
      /\ UNCHANGED <<tickets, channels, chanCount, config, saga, handler>>

\* cancel_delete: the cancellation is reported, then collector.stop().
CollectCancel ==
  \E r \in BagToSet(delivery) :
      /\ r.pc = "cancel"
      /\ \E ok \in BOOLEAN :
           IF ok
           THEN /\ delivery' = Replaced(r, [r EXCEPT !.pc = "done", !.outcome = "cancelled"])
                /\ handler' = CollectorStop(r.gate)
           ELSE /\ delivery' = Replaced(r, [r EXCEPT !.pc = "done", !.outcome = "error"])
                /\ UNCHANGED handler
      /\ UNCHANGED <<tickets, channels, chanCount, config, saga>>

\* A confirm whose failed status write is swallowed and followed by the rest
\* of the branch.
CollectWriteSwallowed ==
  \E r \in BagToSet(delivery) :
      /\ r.pc = "write"
      /\ \E ok \in BOOLEAN :
           /\ tickets' = IF ok
                         THEN RepoUpdateTicketStatus(tickets, handler[r.gate].ticket, CLOSED,
                                                     handler[r.gate].actor,
                                                     "Ticket deleted by staff")
                         ELSE tickets
           /\ delivery' = Replaced(r, [r EXCEPT !.pc = "notify", !.closedWritten = ok])
      /\ UNCHANGED <<channels, chanCount, config, saga, handler>>

\* A confirm that records the deletion as a status of its own.
CollectWriteDeleted ==
  \E r \in BagToSet(delivery) :
      /\ r.pc = "write"
      /\ \E ok \in BOOLEAN :
           IF ok
           THEN /\ tickets' = RepoUpdateTicketStatus(tickets, handler[r.gate].ticket,
                                                     "deleted", handler[r.gate].actor,
                                                     "Ticket deleted by staff")
                /\ delivery' = Replaced(r, [r EXCEPT !.pc = "notify", !.closedWritten = TRUE])
           ELSE /\ delivery' = Replaced(r, [r EXCEPT !.pc = "done", !.outcome = "writeFailed"])
                /\ UNCHANGED tickets
      /\ UNCHANGED <<channels, chanCount, config, saga, handler>>

\* confirm_delete: updateTicketStatus(ticket.id, CLOSED, user, "Ticket deleted
\* by staff") on the ticket the delete handler read; a throw leaves the branch
\* through the listener's catch.
CollectWrite ==
  \E r \in BagToSet(delivery) :
      /\ r.pc = "write"
      /\ \E ok \in BOOLEAN :
           IF ok
           THEN /\ tickets' = RepoUpdateTicketStatus(tickets, handler[r.gate].ticket, CLOSED,
                                                     handler[r.gate].actor,
                                                     "Ticket deleted by staff")
                /\ delivery' = Replaced(r, [r EXCEPT !.pc = "notify", !.closedWritten = TRUE])
           ELSE /\ delivery' = Replaced(r, [r EXCEPT !.pc = "done", !.outcome = "writeFailed"])
                /\ UNCHANGED tickets
      /\ UNCHANGED <<channels, chanCount, config, saga, handler>>

\* The DM to the creator and the "Deleting ticket..." edit, each in its own
\* try/catch; then setTimeout(channel.delete, 3000) and collector.stop().
CollectNotify ==
  \E r \in BagToSet(delivery) :
      /\ r.pc = "notify"
      /\ delivery' = Replaced(r, [r EXCEPT !.pc = "timer", !.removal = "scheduled"])
      /\ handler' = CollectorStop(r.gate)
      /\ UNCHANGED <<tickets, channels, chanCount, config, saga>>

\* A timer callback that puts the record back to what the delete handler
\* had read when the channel cannot be deleted.
CollectTimerRollsBack ==
  \E r \in BagToSet(delivery) :
      /\ r.pc = "timer"
      /\ \E ok \in BOOLEAN, dm \in BOOLEAN :
           LET c == handler[r.gate].channelId IN
           IF ok /\ c \in channels
           THEN /\ channels' = channels \ {c}
                /\ delivery' = Replaced(r, [r EXCEPT !.pc = "done", !.removal = "deleted",
                                                     !.outcome = "deleted"])
                /\ UNCHANGED tickets
           ELSE /\ UNCHANGED channels
                /\ tickets' = RepoUpdateTicketStatus(tickets, handler[r.gate].ticket,
                                                     handler[r.gate].seenStatus, NoUser,
                                                     handler[r.gate].seenReason)
                /\ delivery' = Replaced(r,
                      [r EXCEPT !.pc = "done", !.removal = "failed",
                                !.reportedTo = handler[r.gate].actor,
                                !.outcome = IF dm THEN "removalFailed"
                                            ELSE "removalFailedNoNotice"])
      /\ UNCHANGED <<chanCount, config, saga, handler>>

\* A timer callback that drops the ticket's record together with its channel.
CollectTimerDropsRecord ==
  \E r \in BagToSet(delivery) :
      /\ r.pc = "timer"
      /\ \E ok \in BOOLEAN, dm \in BOOLEAN :
           LET c == handler[r.gate].channelId IN
           IF ok /\ c \in channels
           THEN /\ channels' = channels \ {c}
                /\ tickets' = SelectSeq(tickets, LAMBDA t : t.channelId # c)
                /\ delivery' = Replaced(r, [r EXCEPT !.pc = "done", !.removal = "deleted",
                                                     !.outcome = "deleted"])
           ELSE /\ UNCHANGED <<channels, tickets>>
                /\ delivery' = Replaced(r,
                      [r EXCEPT !.pc = "done", !.removal = "failed",
                                !.reportedTo = handler[r.gate].actor,
                                !.outcome = IF dm THEN "removalFailed"
                                            ELSE "removalFailedNoNotice"])
      /\ UNCHANGED <<chanCount, config, saga, handler>>

\* The timer fires: channel.delete(); on a failure a DM is sent to the member
\* who pressed delete (interaction.user), and a failure of that DM is only
\* logged.  Nothing else is changed.
CollectTimer ==
  \E r \in BagToSet(delivery) :
      /\ r.pc = "timer"
      /\ \E ok \in BOOLEAN, dm \in BOOLEAN :
           LET c == handler[r.gate].channelId IN
           IF ok /\ c \in channels
           THEN /\ channels' = channels \ {c}
                /\ delivery' = Replaced(r, [r EXCEPT !.pc = "done", !.removal = "deleted",
                                                     !.outcome = "deleted"])
           ELSE /\ UNCHANGED channels
                /\ delivery' = Replaced(r,
                      [r EXCEPT !.pc = "done", !.removal = "failed",
                                !.reportedTo = handler[r.gate].actor,
                                !.outcome = IF dm THEN "removalFailed"
                                            ELSE "removalFailedNoNotice"])
      /\ UNCHANGED <<tickets, chanCount, config, saga, handler>>

\* ------------------------------------------------------------ specification
Init ==
    /\ tickets = <<>>
    /\ channels = {}
    /\ chanCount = 0
    /\ guildState \in ConfigStates
    /\ categoryState \in ConfigStates
    /\ supportRole \in BOOLEAN
    /\ saga = [s \in Sagas |-> IdleSaga]
    /\ handler = [h \in Handlers |-> IdleHandler]
    /\ delivery = EmptyBag
    /\ llm = IdleLLM
    /\ emb = IdleEmb

Next ==
    \/ \E s \in Sagas, u \in Users : StartSaga(s, u)
    \/ \E s \in Sagas : SagaCheckRead(s)
    \/ \E s \in Sagas : SagaCheckHeal(s)
    \/ \E s \in Sagas : SagaValidate(s)
    \/ \E s \in Sagas : SagaProvision(s)
    \/ \E s \in Sagas : SagaPersist(s)
    \/ \E s \in Sagas : SagaRename(s)
    \/ \E s \in Sagas : SagaWelcome(s)
    \/ \E s \in Sagas : SagaCatch(s)

Spec == Init /\ [][Next]_vars

\* A guild in which user 1 has created a ticket: the saga that created it has
\* returned, the ticket is OPEN and unclaimed, its channel exists.
CreatedSaga ==
    [IdleSaga EXCEPT !.pc = "done", !.userId = 1, !.createdChannel = 1, !.ticket = 1,
                     !.welcome = "sent",
                     !.result = [success |-> TRUE, error |-> "none", ticket |-> 1,
                                 channel |-> 1, ticketNumber |-> 1]]

InitTicket ==
    /\ tickets = RepoCreateTicket(<<>>, 1, 1)
    /\ channels = {1}
    /\ chanCount = 1
    /\ guildState = "enabled"
    /\ categoryState = "enabled"
    /\ supportRole \in BOOLEAN
    /\ saga = [s \in Sagas |-> IF s = 1 THEN CreatedSaga ELSE IdleSaga]
    /\ handler = [h \in Handlers |-> IdleHandler]
    /\ delivery = EmptyBag
    /\ llm = IdleLLM
    /\ emb = IdleEmb

\* The claim arbiter: claim button handlers running against the ticket.
NextClaim ==
    \/ \E h \in Handlers : DispatchClaim(h)
    \/ \E h \in Handlers : ClaimRead(h)
    \/ \E h \in Handlers : ClaimWrite(h)
    \/ \E h \in Handlers : UnclaimWrite(h)

SpecClaim == InitTicket /\ [][NextClaim]_vars

\* The ticket state machine: close, reopen and archive handlers running
\* against the ticket.
NextLife ==
    \/ \E h \in Handlers : DispatchClose(h)
    \/ \E h \in Handlers : DispatchReopen(h)
    \/ \E h \in Handlers : DispatchArchive(h)
    \/ \E h \in Handlers : CloseRead(h)
    \/ \E h \in Handlers : CloseSubmit(h)
    \/ \E h \in Handlers : ReopenRead(h)
    \/ \E h \in Handlers : ReopenWrite(h)
    \/ \E h \in Handlers : ArchiveRead(h)
    \/ \E h \in Handlers : ArchiveWrite(h)

SpecLife == InitTicket /\ [][NextLife]_vars

\* The ticket as the state machine leaves it: still OPEN, closed by its
\* creator, or archived by its creator.
InitGate ==
    /\ tickets \in { RepoCreateTicket(<<>>, 1, 1),
                     RepoUpdateTicketStatus(RepoCreateTicket(<<>>, 1, 1), 1, CLOSED, 1,
                                            "reason given by the actor"),
                     RepoUpdateTicketStatus(RepoCreateTicket(<<>>, 1, 1), 1, ARCHIVED, 1,
                                            "Ticket archived") }
    /\ channels = {1}
    /\ chanCount = 1
    /\ guildState = "enabled"
    /\ categoryState = "enabled"
    /\ supportRole = FALSE
    /\ saga = [s \in Sagas |-> IF s = 1 THEN CreatedSaga ELSE IdleSaga]
    /\ handler = [h \in Handlers |-> IdleHandler]
    /\ delivery = EmptyBag
    /\ llm = IdleLLM
    /\ emb = IdleEmb

\* The delete flow: delete handlers, their collectors and the component
\* interactions delivered to them.
NextGate ==
    \/ \E h \in Handlers : DispatchDelete(h)
    \/ \E h \in Handlers : DeleteRead(h)
    \/ \E h \in Handlers : GateTimeout(h)
    \/ \E h \in Handlers, u \in Users, id \in CustomIds : Deliver(h, u, id)
    \/ CollectDefer
    \/ CollectCancel
    \/ CollectWrite
    \/ CollectNotify
    \/ CollectTimer

SpecGate == InitGate /\ [][NextGate]_vars

\* createTicket has returned to its caller: its locals are gone.
SagaReturn(s) ==
    /\ saga[s].pc = "done"
    /\ saga' = [saga EXCEPT ![s] = IdleSaga]
    /\ UNCHANGED <<tickets, channels, chanCount, config, handler, delivery>>

\* A button handler has replied, its collector (if any) has ended and every
\* interaction the collector took has been handled: nothing of the execution
\* is left.
HandlerReturn(h) ==
    /\ handler[h].pc \in {"done", "ended"}
    /\ \A r \in BagToSet(delivery) : r.gate = h => r.pc = "done"
    /\ handler' = [handler EXCEPT ![h] = IdleHandler]
    /\ delivery' = [r \in {q \in BagToSet(delivery) : q.gate # h} |-> CopiesIn(r, delivery)]
    /\ UNCHANGED <<tickets, channels, chanCount, config, saga>>

\* Nothing is running.
Idle ==
    /\ \A s \in Sagas : saga[s].pc = "idle"
    /\ \A h \in Handlers : handler[h].pc = "idle"
    /\ delivery = EmptyBag

\* A guild in which user 1 holds an OPEN ticket whose channel is gone: the
\* state createTicket leaves when the rename threw after the insert and the
\* catch block deleted the channel.
InitSeq ==
    /\ tickets = RepoCreateTicket(<<>>, 1, 1)
    /\ channels = {}
    /\ chanCount = 1
    /\ guildState = "enabled"
    /\ categoryState = "enabled"
    /\ supportRole \in BOOLEAN
    /\ saga = [s \in Sagas |-> IdleSaga]
    /\ handler = [h \in Handlers |-> IdleHandler]
    /\ delivery = EmptyBag
    /\ llm = IdleLLM
    /\ emb = IdleEmb

\* Every operation of the ticket system, one operation after the other: a
\* createTicket call or a button click arrives when nothing else is running
\* (the interactions on one delete prompt still overlap), and at most
\* MaxChannels further channels are provisioned.
NextSeq ==
    \/ /\ Idle
       /\ \/ chanCount <= MaxChannels /\ \E s \in Sagas, u \in Users : StartSaga(s, u)
          \/ \E h \in Handlers : DispatchClaim(h)
          \/ \E h \in Handlers : DispatchClose(h)
          \/ \E h \in Handlers : DispatchReopen(h)
          \/ \E h \in Handlers : DispatchArchive(h)
          \/ \E h \in Handlers : DispatchDelete(h)
    \/ \E s \in Sagas : SagaCheckRead(s)
    \/ \E s \in Sagas : SagaCheckHeal(s)
    \/ \E s \in Sagas : SagaValidate(s)
    \/ \E s \in Sagas : SagaProvision(s)
    \/ \E s \in Sagas : SagaPersist(s)
    \/ \E s \in Sagas : SagaRename(s)
    \/ \E s \in Sagas : SagaWelcome(s)
    \/ \E s \in Sagas : SagaCatch(s)
    \/ \E s \in Sagas : SagaReturn(s)
    \/ \E h \in Handlers : ClaimRead(h)
    \/ \E h \in Handlers : ClaimWrite(h)
    \/ \E h \in Handlers : UnclaimWrite(h)
    \/ \E h \in Handlers : CloseRead(h)
    \/ \E h \in Handlers : CloseSubmit(h)
    \/ \E h \in Handlers : ReopenRead(h)
    \/ \E h \in Handlers : ReopenWrite(h)
    \/ \E h \in Handlers : ArchiveRead(h)
    \/ \E h \in Handlers : ArchiveWrite(h)
    \/ \E h \in Handlers : DeleteRead(h)
    \/ \E h \in Handlers : GateTimeout(h)
    \/ \E h \in Handlers, u \in Users, id \in CustomIds : Deliver(h, u, id)
    \/ CollectDefer
    \/ CollectCancel
    \/ CollectWrite
    \/ CollectNotify
    \/ CollectTimer
    \/ \E h \in Handlers : HandlerReturn(h)

SpecSeq == InitSeq /\ [][NextSeq]_vars

\* A guild in which user 1 created a ticket while tickets were enabled; since
\* then the channel may have been deleted by hand and the configuration may
\* have been changed.
InitConfig ==
    /\ tickets = RepoCreateTicket(<<>>, 1, 1)
    /\ channels \in {{1}, {}}
    /\ chanCount = 1
    /\ guildState \in ConfigStates
    /\ categoryState \in ConfigStates
    /\ supportRole = FALSE
    /\ saga = [s \in Sagas |-> IdleSaga]
    /\ handler = [h \in Handlers |-> IdleHandler]
    /\ delivery = EmptyBag
    /\ llm = IdleLLM
    /\ emb = IdleEmb

\* createTicket calls in a guild that already has a ticket.
SpecConfig == InitConfig /\ [][Next]_vars

\* ------------------------------------------------------------------ claims
OpenTicketsOf(u) == {i \in DOMAIN tickets : tickets[i].creatorId = u /\ tickets[i].status = OPEN}

LiveOpenTicketsOf(u) == {i \in OpenTicketsOf(u) : tickets[i].channelId \in channels}

\* C1: once a creation saga has completed, no user holds more than one OPEN
\* ticket in the guild, also when createTicket calls of one user overlap.
C1_AtMostOneOpenTicketPerUser ==
    (\E s \in Sagas : saga[s].pc = "done") =>
        \A u \in Users : Cardinality(OpenTicketsOf(u)) <= 1

\* C2: whenever the creator holds an OPEN ticket whose channel resolves, the
\* existing-ticket check ends createTicket with the duplicate failure that
\* refers to a resolving channel of the creator, and nothing is provisioned
\* or persisted.
C2_LiveOpenTicketRefusesCreation ==
    [][\A s \in Sagas :
          (saga[s].pc = "check" /\ saga'[s].pc # "check"
              /\ LiveOpenTicketsOf(saga[s].userId) # {})
          => /\ saga'[s].pc = "done"
             /\ saga'[s].result = Failure("duplicate")
             /\ saga'[s].existing \in LiveOpenTicketsOf(saga[s].userId)
             /\ saga'[s].createdChannel = NoChannel
             /\ tickets' = tickets /\ chanCount' = chanCount]_vars

\* C3: when provisioning succeeded and the record insert threw, createTicket
\* has requested the delete of exactly the provisioned channel by the time
\* it returns, and it returns the failure result, whether or not that delete
\* succeeded; no record is bound to the channel.
C3_PersistFailureRollsBackChannel ==
    \A s \in Sagas :
        (saga[s].pc = "done" /\ saga[s].thrownAt = "persist") =>
            /\ saga[s].createdChannel # NoChannel
            /\ saga[s].deleteRequested = saga[s].createdChannel
            /\ saga[s].result = Failure("unexpected")
            /\ RepoTicketByChannel(tickets, saga[s].createdChannel) = NoTicket

\* C3 witness: the insert threw and the compensating delete failed as well;
\* the saga has returned and the orphan channel still exists.
C3_Witness ==
    \E s \in Sagas :
        /\ saga[s].pc = "done" /\ saga[s].thrownAt = "persist"
        /\ ~saga[s].deleteOk
        /\ saga[s].createdChannel \in channels

\* C4: for every channel a returned createTicket provisioned, either its
\* delete was requested and no record is bound to it, or a record is bound to
\* it and the saga requested no delete; never both, never neither.
C4_RollbackXorPersist ==
    \A s \in Sagas :
        (saga[s].pc = "done" /\ saga[s].createdChannel # NoChannel) =>
            LET rolledBack == saga[s].deleteRequested = saga[s].createdChannel
                persisted  == RepoTicketByChannel(tickets, saga[s].createdChannel) # NoTicket
            IN (rolledBack /\ ~persisted) \/ (persisted /\ ~rolledBack)

\* C5: a throw of the channel rename after the insert is not fatal:
\* createTicket returns success with the persisted ticket and its channel,
\* requests no delete of the channel, and the ticket is OPEN.
C5_RenameFailureNonFatal ==
    \A s \in Sagas :
        (saga[s].pc = "done" /\ saga[s].thrownAt = "rename") =>
            /\ saga[s].result.success
            /\ saga[s].result.ticket = saga[s].ticket
            /\ saga[s].result.channel = saga[s].createdChannel
            /\ saga[s].deleteRequested = NoChannel
            /\ saga[s].createdChannel \in channels
            /\ tickets[saga[s].ticket].status = OPEN

\* C6: a claimant written by claimTicket is never replaced by another
\* member's claim: claimedById goes from a member only to unset or to the
\* same member.
C6_ClaimNeverOverwritten ==
    [][\A t \in DOMAIN tickets :
          (tickets[t].claimedById # NoUser /\ tickets'[t].claimedById # NoUser)
          => tickets'[t].claimedById = tickets[t].claimedById]_vars

\* C7: a claim click by B that finds the ticket claimed by another member A
\* ends with the already-claimed reply and writes nothing, whatever B's
\* permissions.
C7_ClaimedByOtherRefused ==
    [][\A h \in Handlers :
          LET t == RepoTicketByChannel(tickets, handler[h].channelId) IN
          (/\ handler[h].kind = "claim" /\ handler[h].pc = "read"
           /\ handler'[h].pc # "read" /\ handler'[h].outcome # "error"
           /\ t # NoTicket
           /\ tickets[t].claimedById \notin {NoUser, handler[h].actor})
          => /\ handler'[h].pc = "done"
             /\ handler'[h].outcome = "alreadyClaimed"
             /\ tickets' = tickets]_vars

\* C7 witness: a member holding ManageChannels clicked claim on a ticket that
\* another member had claimed, and was refused; the claimant is unchanged.
C7_Witness ==
    \E h \in Handlers :
        /\ handler[h].pc = "done" /\ handler[h].outcome = "alreadyClaimed"
        /\ handler[h].manage
        /\ tickets[handler[h].ticket].claimedById \notin {NoUser, handler[h].actor}

\* The number of interactions in the bag that satisfy P.
CountDeliveries(P(_)) ==
    BagCardinality([r \in {q \in BagToSet(delivery) : P(q)} |-> CopiesIn(r, delivery)])

\* C8: in one collector the delete transition (the CLOSED write) is executed
\* at most once and the channel removal is requested at most once, however
\* often confirm is delivered.
C8_ConfirmActsOnce ==
    \A h \in Handlers :
        /\ CountDeliveries(LAMBDA r : r.gate = h /\ r.closedWritten) <= 1
        /\ CountDeliveries(LAMBDA r : r.gate = h /\ r.removal # "none") <= 1

\* C9: a confirm branch requests the channel removal only after its CLOSED
\* write has been persisted, and that write leaves the ticket CLOSED whatever
\* its status was; a confirm whose write threw never requests the removal and
\* changes nothing.
C9_RemovalOnlyAfterClosedWrite ==
    [][/\ \A r \in BagToSet(delivery') :
            /\ r.removal # "none" => r.closedWritten
            /\ r.outcome = "writeFailed" => (~r.closedWritten /\ r.removal = "none")
            /\ (r.pc = "notify" /\ CopiesIn(r, delivery') > CopiesIn(r, delivery))
                  => tickets'[handler[r.gate].ticket].status = CLOSED
            /\ (r.outcome = "writeFailed" /\ CopiesIn(r, delivery') > CopiesIn(r, delivery))
                  => (tickets' = tickets /\ channels' = channels)]_vars

\* C9 witness: on a ticket that was ARCHIVED when delete was pressed, one
\* confirm failed at the CLOSED write and requested nothing, and another
\* confirm wrote CLOSED and then had the channel removed.
C9_Witness ==
    \E r, q \in BagToSet(delivery) :
        /\ r.gate = q.gate
        /\ handler[r.gate].seenStatus = ARCHIVED
        /\ r.closedWritten /\ r.removal = "deleted"
        /\ q.customId = "confirm_delete" /\ q.outcome = "writeFailed"
        /\ ~q.closedWritten /\ q.removal = "none"

ReopenWritten == {"reopened", "reopenedNoPermissions", "errorAfterWrite"}

C11_StatusInDomain ==
    \A t \in DOMAIN tickets : tickets[t].status \in {OPEN, CLOSED, ARCHIVED}

\* C11 witness: the stale ticket was closed by the self-healing check, a
\* ticket created after it was claimed and then deleted by staff, and its
\* channel is gone.
C11_Witness ==
    \E t, u \in DOMAIN tickets :
        /\ tickets[t].status = CLOSED /\ tickets[t].closeReason = "Ticket channel was deleted"
        /\ tickets[u].status = CLOSED /\ tickets[u].closeReason = "Ticket deleted by staff"
        /\ tickets[u].claimedById # NoUser
        /\ tickets[u].channelId \notin channels

\* The handler h leaves its read step having found a ticket.
ReadsTicket(h, kind) ==
    /\ handler[h].kind = kind /\ handler[h].pc = "read"
    /\ handler'[h].pc # "read"
    /\ handler'[h].outcome \notin {"error", "notTicket"}

\* C12: a reopen that reads the ticket OPEN is refused (InvalidTransition) and
\* writes nothing; a reopen that reads it CLOSED or ARCHIVED goes on to the
\* status write, and a reopen reports success only after such a read and
\* with status = OPEN written.
C12_ReopenGuard ==
    [][\A h \in Handlers :
          /\ ReadsTicket(h, "reopen") =>
                LET t == RepoTicketByChannel(tickets, handler[h].channelId) IN
                /\ tickets' = tickets
                /\ IF tickets[t].status = OPEN
                   THEN handler'[h].pc = "done" /\ handler'[h].outcome = "invalidTransition"
                   ELSE handler'[h].pc = "write" /\ handler'[h].ticket = t
          /\ (handler[h].kind = "reopen" /\ handler[h].outcome = "none"
                /\ handler'[h].outcome \in ReopenWritten)
             => /\ handler[h].pc = "write"
                /\ handler[h].seenStatus \in {CLOSED, ARCHIVED}
                /\ tickets'[handler[h].ticket].status = OPEN]_vars

\* C12 witness: the ticket was archived, a reopen read it ARCHIVED and was
\* accepted, and the ticket is OPEN.
C12_Witness ==
    \E h, g \in Handlers :
        /\ handler[g].kind = "archive" /\ handler[g].outcome = "archived"
        /\ handler[h].kind = "reopen" /\ handler[h].outcome \in ReopenWritten
        /\ handler[h].seenStatus = ARCHIVED
        /\ tickets[handler[h].ticket].status = OPEN

\* C13: a close click that finds the ticket CLOSED or ARCHIVED is refused
\* (InvalidTransition) and the record keeps its status, closedBy, closeReason
\* and closedAt; only a click that finds it OPEN gets the reason modal.
C13_CloseOnlyFromOpen ==
    [][\A h \in Handlers :
          ReadsTicket(h, "close") =>
             LET t == RepoTicketByChannel(tickets, handler[h].channelId) IN
             /\ tickets' = tickets
             /\ IF tickets[t].status \in {CLOSED, ARCHIVED}
                THEN handler'[h].pc = "done" /\ handler'[h].outcome = "invalidTransition"
                ELSE /\ tickets[t].status = OPEN
                     /\ handler'[h].pc = "modal" /\ handler'[h].ticket = t]_vars

\* C13 witness: the ticket was archived with its reason, a close click then
\* read it ARCHIVED and was refused, and the record still carries the
\* archive's status, actor and reason.
C13_Witness ==
    \E h, g \in Handlers :
        /\ handler[g].kind = "archive" /\ handler[g].outcome = "archived"
        /\ handler[h].kind = "close" /\ handler[h].outcome = "invalidTransition"
        /\ handler[h].seenStatus = ARCHIVED
        /\ tickets[handler[h].ticket].status = ARCHIVED
        /\ tickets[handler[h].ticket].closedById = handler[g].actor
        /\ tickets[handler[h].ticket].closeReason = "Ticket archived"
        /\ tickets[handler[h].ticket].closedAt = FALSE

ArchiveWritten == {"archived", "errorAfterWrite"}

\* The archive handler h completes its status write in this step.
ArchiveWrites(h) ==
    /\ handler[h].kind = "archive" /\ handler[h].pc = "write"
    /\ handler'[h].outcome \in ArchiveWritten

\* C14 as stated: an accepted archive writes status = ARCHIVED, closedBy =
\* actor and closeReason = "archived".
C14_ArchiveReasonArchived ==
    [][\A h \in Handlers :
          ArchiveWrites(h) =>
             LET t == tickets'[handler[h].ticket] IN
             /\ t.status = ARCHIVED
             /\ t.closedById = handler[h].actor
             /\ t.closeReason = "archived"]_vars

\* C14 amended: an archive that reads the ticket ARCHIVED is refused and
\* writes nothing; one that reads it OPEN or CLOSED goes on to the write, and
\* an accepted archive has written status = ARCHIVED, closedBy = actor and
\* closeReason = "Ticket archived".
C14_ArchiveGuardAndWrite ==
    [][\A h \in Handlers :
          /\ ReadsTicket(h, "archive") =>
                LET t == RepoTicketByChannel(tickets, handler[h].channelId) IN
                /\ tickets' = tickets
                /\ IF tickets[t].status = ARCHIVED
                   THEN handler'[h].pc = "done" /\ handler'[h].outcome = "invalidTransition"
                   ELSE handler'[h].pc = "write" /\ handler'[h].ticket = t
          /\ ArchiveWrites(h) =>
                LET t == tickets'[handler[h].ticket] IN
                /\ handler[h].seenStatus \in {OPEN, CLOSED}
                /\ t.status = ARCHIVED
                /\ t.closedById = handler[h].actor
                /\ t.closeReason = "Ticket archived"]_vars

\* C14 witness: the ticket was closed with a reason, an archive then read it
\* CLOSED and was accepted: the record is ARCHIVED by the archiving member
\* with the archive's reason.
C14_Witness ==
    \E h, g \in Handlers :
        /\ handler[g].kind = "close" /\ handler[g].outcome = "closed"
        /\ handler[h].kind = "archive" /\ handler[h].outcome = "archived"
        /\ handler[h].seenStatus = CLOSED
        /\ tickets[handler[h].ticket].status = ARCHIVED
        /\ tickets[handler[h].ticket].closedById = handler[h].actor
        /\ tickets[handler[h].ticket].closeReason = "Ticket archived"

\* C15: when channel provisioning fails, createTicket returns at once with
\* the channel-creation failure: no record is inserted (so the ticket
\* numbering is where it was), no channel exists that was not there before,
\* and no channel delete is requested.
C15_ProvisionFailureAborts ==
    [][\A s \in Sagas :
          (saga[s].pc = "provision" /\ saga'[s].pc # "provision"
              /\ saga'[s].createdChannel = NoChannel)
          => /\ saga'[s].pc = "done"
             /\ saga'[s].result = Failure("channel")
             /\ saga'[s].ticket = NoTicket
             /\ saga'[s].deleteRequested = NoChannel
             /\ tickets' = tickets
             /\ channels' = channels /\ chanCount' = chanCount]_vars

\* C15 witness: a createTicket call failed at provisioning in a guild that
\* already has a ticket; the store still holds that ticket alone.
C15_Witness ==
    \E s \in Sagas :
        /\ saga[s].pc = "done" /\ saga[s].result = Failure("channel")
        /\ saga[s].createdChannel = NoChannel /\ saga[s].deleteRequested = NoChannel
        /\ Len(tickets) = 1 /\ chanCount = 1

\* C16: when the welcome message cannot be delivered, createTicket still
\* returns success with the ticket and its channel: the record is OPEN and
\* untouched, the channel exists and no delete of it is requested.
C16_WelcomeFailureNonFatal ==
    [][\A s \in Sagas :
          (saga[s].pc = "welcome" /\ saga'[s].welcome = "failed")
          => /\ saga'[s].pc = "done"
             /\ saga'[s].result.success
             /\ saga'[s].result.ticket = saga[s].ticket
             /\ saga'[s].result.channel = saga[s].createdChannel
             /\ saga'[s].deleteRequested = NoChannel
             /\ tickets' = tickets
             /\ tickets'[saga[s].ticket].status = OPEN
             /\ tickets'[saga[s].ticket].channelId = saga[s].createdChannel
             /\ channels' = channels
             /\ saga[s].createdChannel \in channels']_vars

\* C16 witness: a createTicket call has returned success although its welcome
\* message failed; its ticket is OPEN and its channel exists.
C16_Witness ==
    \E s \in Sagas :
        /\ saga[s].pc = "done" /\ saga[s].welcome = "failed"
        /\ saga[s].result.success
        /\ tickets[saga[s].ticket].status = OPEN
        /\ saga[s].createdChannel \in channels

\* The guild's ticket system is disabled or missing, or the category is
\* missing or disabled.
CreationDisabled == guildState # "enabled" \/ categoryState # "enabled"

\* A returned createTicket call that provisioned no channel, created no
\* record and sent no welcome message.
NoCreationEffects(s) ==
    /\ saga[s].createdChannel = NoChannel
    /\ saga[s].ticket = NoTicket
    /\ saga[s].welcome = "none"
    /\ saga[s].deleteRequested = NoChannel

\* C17 as stated: with tickets disabled, every createTicket call returns the
\* validation failure, without a channel, a record or a notification.
C17_DisabledReturnsValidationFailure ==
    \A s \in Sagas :
        (saga[s].pc = "done" /\ CreationDisabled) =>
            /\ saga[s].result = Failure("validation")
            /\ NoCreationEffects(s)

\* C17 amended: with tickets disabled, every createTicket call returns a
\* failure, the validation failure unless the existing-ticket check refused
\* it as a duplicate of a live OPEN ticket of the caller; no channel is
\* provisioned, no record is created and no notification is sent, so the
\* guild's channels and records stay the ones it had.
C17_DisabledCreatesNothing ==
    CreationDisabled =>
        /\ chanCount = 1 /\ Len(tickets) = 1
        /\ \A s \in Sagas :
              /\ saga[s].pc \in {"idle", "check", "heal", "validate", "done"}
              /\ saga[s].pc = "done" =>
                    /\ NoCreationEffects(s)
                    /\ \/ saga[s].result = Failure("validation")
                       \/ /\ saga[s].result = Failure("duplicate")
                          /\ saga[s].existing \in LiveOpenTicketsOf(saga[s].userId)

\* C17 witness: in a guild whose ticket system is disabled, one createTicket
\* call closed the caller's stale ticket and then failed validation, and
\* another call, by a member without a ticket, failed validation too.
C17_Witness ==
    /\ guildState = "disabled"
    /\ tickets[1].closeReason = "Ticket channel was deleted"
    /\ \E s, r \in Sagas :
          /\ saga[s].userId # saga[r].userId
          /\ saga[s].pc = "done" /\ saga[s].result = Failure("validation")
          /\ saga[r].pc = "done" /\ saga[r].result = Failure("validation")

UnclaimWritten == {"unclaimed", "unclaimedNoNotice"}

\* C18: a click on the claim button by the member who holds the claim is an
\* unclaim: the handler takes the unclaim branch, whatever the member's
\* permissions, and its write leaves the ticket without a claimant.
C18_ClaimThenToggleUnclaims ==
    [][\A h \in Handlers :
          /\ ReadsTicket(h, "claim") =>
                LET t == RepoTicketByChannel(tickets, handler[h].channelId) IN
                tickets[t].claimedById = handler[h].actor
                   => /\ handler'[h].pc = "unclaim" /\ handler'[h].ticket = t
                      /\ tickets' = tickets
          /\ (handler[h].kind = "claim" /\ handler[h].pc = "unclaim"
                /\ handler'[h].outcome \in UnclaimWritten)
             => tickets'[handler[h].ticket].claimedById = NoUser]_vars

\* C18 witness: a member claimed the unclaimed ticket, then clicked the
\* button again, and the ticket has no claimant.
C18_Witness ==
    \E h, g \in Handlers :
        /\ h # g /\ handler[h].actor = handler[g].actor
        /\ handler[h].kind = "claim" /\ handler[h].outcome = "claimed"
        /\ handler[g].kind = "claim" /\ handler[g].outcome = "unclaimed"
        /\ tickets[handler[g].ticket].claimedById = NoUser

\* C19: a claim click on an unclaimed ticket by a member who has neither
\* ManageChannels nor the category's support role (a category without a
\* support role gives the role to nobody) is answered with the permission
\* denial and writes nothing: the ticket stays unclaimed.
C19_ClaimNeedsPermission ==
    [][\A h \in Handlers :
          ReadsTicket(h, "claim") =>
             LET t == RepoTicketByChannel(tickets, handler[h].channelId) IN
             (/\ tickets[t].claimedById = NoUser
              /\ ~handler[h].manage
              /\ ~(supportRole /\ handler[h].inRole))
             => /\ handler'[h].pc = "done" /\ handler'[h].outcome = "denied"
                /\ tickets' = tickets
                /\ tickets'[t].claimedById = NoUser]_vars

\* C19 witness: in a category without a support role, a member who holds
\* some role but not ManageChannels was denied, and the ticket is unclaimed.
C19_Witness ==
    \E h \in Handlers :
        /\ handler[h].kind = "claim" /\ handler[h].outcome = "denied"
        /\ ~supportRole /\ handler[h].inRole /\ ~handler[h].manage
        /\ tickets[handler[h].ticket].claimedById = NoUser

\* C20: when the deferred channel.delete() fails, the record is not touched
\* and is still CLOSED, as the confirm wrote it; the channel is still there,
\* and the failure report is addressed to the member who pressed delete.
C20_RemovalFailureKeepsClosed ==
    [][\A r \in BagToSet(delivery') :
          (r.removal = "failed" /\ CopiesIn(r, delivery') > CopiesIn(r, delivery))
          => /\ r.closedWritten
             /\ tickets' = tickets
             /\ tickets'[handler[r.gate].ticket].status = CLOSED
             /\ tickets'[handler[r.gate].ticket].closeReason = "Ticket deleted by staff"
             /\ channels' = channels
             /\ r.reportedTo = handler[r.gate].actor]_vars

\* C20 witness: delete was confirmed on an OPEN ticket, the channel could not
\* be deleted and the member was told so: the record is CLOSED and the
\* channel exists.
C20_Witness ==
    \E r \in BagToSet(delivery) :
        /\ r.removal = "failed" /\ r.outcome = "removalFailed"
        /\ handler[r.gate].seenStatus = OPEN
        /\ r.reportedTo = handler[r.gate].actor
        /\ tickets[handler[r.gate].ticket].status = CLOSED
        /\ handler[r.gate].channelId \in channels

\* C21: a delete click by a member without ManageChannels is answered with
\* the permission error: no collector is created for it, so it never takes a
\* confirm or cancel, and the click changes neither a record nor a channel.
C21_DeleteNeedsManageChannels ==
    [][\A h \in Handlers :
          /\ (ReadsTicket(h, "delete") /\ ~handler[h].manage)
             => /\ handler'[h].pc = "done" /\ handler'[h].outcome = "denied"
                /\ tickets' = tickets /\ channels' = channels
                /\ delivery' = delivery
          /\ (handler'[h].kind = "delete" /\ ~handler'[h].manage)
             => /\ handler'[h].pc \notin {"gate", "ended"}
                /\ handler'[h].collected = 0
                /\ \A r \in BagToSet(delivery') : r.gate # h]_vars

\* C21 witness: a member without ManageChannels pressed delete and was
\* denied; the ticket has the status it had and its channel exists.
C21_Witness ==
    \E h \in Handlers :
        /\ handler[h].kind = "delete" /\ handler[h].outcome = "denied"
        /\ ~handler[h].manage
        /\ tickets[handler[h].ticket].status = handler[h].seenStatus
        /\ handler[h].channelId \in channels
        /\ delivery = EmptyBag

\* C22: a prompt whose window ran out with nothing collected issued the
\* timeout report once, and every click on that prompt was dropped, so the
\* prompt wrote no status and requested no channel removal; a prompt on which anything was collected issues no timeout
\* report; no prompt issues the report twice.
C22_TimeoutReportedOnce ==
    \A h \in Handlers :
        /\ handler[h].timeouts <= 1
        /\ handler[h].collected > 0 => handler[h].timeouts = 0
        /\ (handler[h].pc = "ended" /\ handler[h].endReason = "time"
                                    /\ handler[h].collected = 0)
           => /\ handler[h].timeouts = 1
              /\ \A r \in BagToSet(delivery) :
                    r.gate = h => /\ r.pc = "done" /\ r.outcome = "filtered"
                                  /\ ~r.closedWritten /\ r.removal = "none"

\* C22 witness: the window ran out on a prompt that only another member had
\* clicked; the timeout was reported once.
C22_Witness ==
    \E h \in Handlers :
        /\ handler[h].pc = "ended" /\ handler[h].endReason = "time"
        /\ handler[h].collected = 0 /\ handler[h].timeouts = 1
        /\ \E r \in BagToSet(delivery) : r.gate = h /\ r.user # handler[h].actor
        /\ tickets[handler[h].ticket].status = handler[h].seenStatus
        /\ handler[h].channelId \in channels

\* C23: an interaction reaches the 'collect' listener only when it was sent
\* by the member who asked for the deletion and its id is confirm_delete or
\* cancel_delete; any other interaction on the prompt is dropped: it is not
\* counted as collected, cancels nothing, writes no status and schedules no
\* channel removal.
C23_GateFilter ==
    \A r \in BagToSet(delivery) :
        LET fromRequester == r.user = handler[r.gate].actor
            expectedId == r.customId \in {"confirm_delete", "cancel_delete"}
        IN /\ r.outcome # "filtered" => fromRequester /\ expectedId
           /\ ~(fromRequester /\ expectedId)
              => /\ r.pc = "done" /\ r.outcome = "filtered"
                 /\ ~r.closedWritten /\ r.removal = "none"
                 /\ r.reportedTo = NoUser

\* C23 witness: another member pressed confirm_delete on the prompt; the
\* press was dropped, the prompt is still waiting and the ticket and its
\* channel are as they were.
C23_Witness ==
    \E r \in BagToSet(delivery) :
        /\ r.user # handler[r.gate].actor /\ r.customId = "confirm_delete"
        /\ r.outcome = "filtered"
        /\ handler[r.gate].pc = "gate" /\ handler[r.gate].collected = 0
        /\ tickets[handler[r.gate].ticket].status = handler[r.gate].seenStatus
        /\ handler[r.gate].channelId \in channels

\* The delete flow on an OPEN ticket with the collector's 30000 ms timer as a
\* real deadline: a collector that stays open has its window elapse.
InitGateOpen == InitGate /\ tickets[1].status = OPEN

SpecGateLive ==
    InitGateOpen /\ [][NextGate]_vars /\ \A h \in Handlers : WF_vars(GateTimeout(h))

\* C24: every collector that was opened ends (again and again a moment
\* comes at which no collector is open, and a collector leaves the open state
\* only by ending); once a cancel was reported or
\* a confirm branch has scheduled the removal the collector has ended; and a
\* collector that has ended stays ended and collects nothing more.  A
\* listener run that threw leaves the collector to its window.
C24_ListenerTerminates ==
    /\ []<>(\A h \in Handlers : handler[h].pc # "gate")
    /\ [](\A r \in BagToSet(delivery) :
             (r.outcome = "cancelled" \/ r.removal # "none")
                => handler[r.gate].pc = "ended")
    /\ [][\A h \in Handlers :
             handler[h].pc = "ended"
                => /\ handler'[h].pc = "ended"
                   /\ handler'[h].collected = handler[h].collected
                   /\ handler'[h].endReason = handler[h].endReason
                   /\ \A r \in BagToSet(delivery') :
                         (r.gate = h /\ CopiesIn(r, delivery') > CopiesIn(r, delivery))
                            => (r.pc # "defer" /\ r.outcome # "filtered")]_vars

\* C24 witness: a listener run threw, and the collector was ended by its
\* window and not by a stop().
C24_Witness ==
    \E r \in BagToSet(delivery) :
        /\ r.outcome \in {"error", "writeFailed"}
        /\ handler[r.gate].pc = "ended" /\ handler[r.gate].endReason = "time"
        /\ handler[r.gate].collected > 0

C26_SuccessPersistsOpenTicket ==
    [][\A s \in Sagas :
          /\ (saga[s].pc = "persist" /\ saga'[s].pc = "rename")
             => /\ Len(tickets') = Len(tickets) + 1
                /\ SubSeq(tickets', 1, Len(tickets)) = tickets
                /\ saga'[s].ticket = Len(tickets')
                /\ LET t == tickets'[Len(tickets')] IN
                   /\ t.status = OPEN
                   /\ t.creatorId = saga[s].userId
                   /\ t.channelId = saga[s].createdChannel
                   /\ t.channelId # NoChannel
                   /\ \A o \in Sagas \ {s} : saga[o].createdChannel # t.channelId
                   /\ \A i \in DOMAIN tickets : tickets[i].channelId # t.channelId
                   /\ t.claimedById = NoUser
                   /\ t.ticketNumber =
                         MaxOf({tickets[i].ticketNumber : i \in DOMAIN tickets}) + 1
          /\ (saga'[s].result.success /\ ~saga[s].result.success)
             => /\ saga[s].ticket # NoTicket
                /\ saga'[s].result.ticket = saga[s].ticket
                /\ saga'[s].result.channel = saga[s].createdChannel
                /\ saga'[s].result.ticketNumber = tickets[saga[s].ticket].ticketNumber
                /\ tickets[saga[s].ticket].creatorId = saga[s].userId
                /\ tickets[saga[s].ticket].channelId = saga[s].createdChannel
                /\ tickets' = tickets]_vars

\* C26 witness: a call returned success with ticket number 1 for its own
\* record after another call had persisted ticket number 2.
C26_Witness ==
    \E s \in Sagas :
        /\ saga[s].pc = "done" /\ saga[s].result.success
        /\ saga[s].result.ticketNumber = 1 /\ Len(tickets) = 2
        /\ tickets[saga[s].result.ticket].creatorId = saga[s].userId
        /\ tickets[saga[s].result.ticket].channelId = saga[s].result.channel
        /\ tickets[saga[s].result.ticket].status = OPEN

\* The positions a createTicket call can move to from each of its positions.
SagaStepsAfter(pc) ==
    CASE pc = "idle"      -> {"check"}
      [] pc = "check"     -> {"heal", "validate", "done"}
      [] pc = "heal"      -> {"validate"}
      [] pc = "validate"  -> {"provision", "done"}
      [] pc = "provision" -> {"persist", "done"}
      [] pc = "persist"   -> {"rename", "catch"}
      [] pc = "rename"    -> {"welcome", "catch"}
      [] pc = "welcome"   -> {"done"}
      [] pc = "catch"     -> {"done"}
      [] OTHER            -> {}

\* C27: one createTicket call runs its steps in the order existing-ticket
\* check, validation, channel provisioning, record creation, rename, welcome:
\* each step is entered only from the step before it, a call that leaves
\* early returns a failure, a channel is created only by a provisioning step,
\* a record only by a record-creation step, and success is returned only
\* from the welcome step.
C27_StepsInOrder ==
    [][/\ \A s \in Sagas :
            /\ saga'[s].pc # saga[s].pc => saga'[s].pc \in SagaStepsAfter(saga[s].pc)
            /\ (saga'[s].pc = "done" /\ saga[s].pc # "done")
                  => (saga'[s].result.success <=> saga[s].pc = "welcome")
       /\ chanCount' # chanCount
            => \E s \in Sagas : saga[s].pc = "provision" /\ saga'[s].pc = "persist"
       /\ Len(tickets') # Len(tickets)
            => \E s \in Sagas : saga[s].pc = "persist" /\ saga'[s].pc = "rename"]_vars

\* C27 witness: a call that found a stale ticket of the member went through
\* every step, the closing of the stale record included, and returned success
\* with the welcome message sent.
C27_Witness ==
    \E s \in Sagas :
        /\ saga[s].pc = "done" /\ saga[s].result.success
        /\ saga[s].existing # NoTicket /\ saga[s].welcome = "sent"
        /\ saga[s].createdChannel \in channels
        /\ saga[s].ticket = Len(tickets)

SagaStep(s) ==
    \/ SagaCheckRead(s) \/ SagaCheckHeal(s) \/ SagaValidate(s) \/ SagaProvision(s)
    \/ SagaPersist(s) \/ SagaRename(s) \/ SagaWelcome(s) \/ SagaCatch(s)

FailureMessages == {"duplicate", "validation", "server not found", "channel", "unexpected"}

\* C29: a createTicket call that has not returned always has a next step,
\* whatever failed before (a throw is a step into the catch block, never the
\* end of the call), and a call that has returned holds exactly one of: a
\* success with ticket, channel and ticket number, or a failure with an
\* error message and none of the three.
C29_CreateTicketTotal ==
    \A s \in Sagas :
        /\ saga[s].pc \notin {"idle", "done"} => ENABLED SagaStep(s)
        /\ saga[s].pc # "done" => saga[s].result = NoResult
        /\ saga[s].pc = "done"
           => LET r == saga[s].result IN
              \/ /\ r.success /\ r.error = "none"
                 /\ r.ticket \in DOMAIN tickets /\ r.channel # NoChannel
                 /\ r.ticketNumber > 0
              \/ /\ ~r.success /\ r.error \in FailureMessages
                 /\ r.ticket = NoTicket /\ r.channel = NoChannel /\ r.ticketNumber = 0

\* C29 witness: the rename threw after the record had been persisted and the
\* cleanup delete of the channel failed too; the call returned the failure
\* result.
C29_Witness ==
    \E s \in Sagas :
        /\ saga[s].pc = "done" /\ saga[s].thrownAt = "rename"
        /\ saga[s].deleteRequested # NoChannel /\ ~saga[s].deleteOk
        /\ ~saga[s].result.success /\ saga[s].result.error = "unexpected"

\* C30: no step of any operation removes a record or changes which ticket a
\* record is: the store only grows, and every record keeps its number, its
\* creator and its channel id.  When a confirmed delete writes CLOSED, and
\* when it then removes the channel, the record of the ticket is in the store
\* with status CLOSED.
C30_RecordsNeverRemoved ==
    [][/\ Len(tickets') >= Len(tickets)
       /\ \A i \in DOMAIN tickets :
             /\ tickets'[i].ticketNumber = tickets[i].ticketNumber
             /\ tickets'[i].creatorId = tickets[i].creatorId
             /\ tickets'[i].channelId = tickets[i].channelId
       /\ \A r \in BagToSet(delivery') :
             (/\ CopiesIn(r, delivery') > CopiesIn(r, delivery)
              /\ \/ r.pc = "notify"
                 \/ r.removal = "deleted")
                => /\ handler[r.gate].ticket \in DOMAIN tickets'
                   /\ tickets'[handler[r.gate].ticket].status = CLOSED]_vars

\* C30 witness: after a createTicket call added a second record, a confirmed
\* delete removed a ticket's channel; both records are in the store and the
\* deleted ticket's record is CLOSED.
C30_Witness ==
    \E r \in BagToSet(delivery) :
        /\ r.removal = "deleted" /\ r.closedWritten
        /\ handler[r.gate].channelId \notin channels
        /\ Len(tickets) = 2
        /\ tickets[handler[r.gate].ticket].status = CLOSED
        /\ tickets[handler[r.gate].ticket].channelId = handler[r.gate].channelId

\* C31: a check that finds the member's OPEN ticket on a channel that no
\* longer resolves reports no duplicate and goes on to the stale-ticket
\* write, and the call enters validation only with that ticket CLOSED.
C31_StaleTicketClosedBeforeValidation ==
    [][\A s \in Sagas :
          /\ (saga[s].pc = "check" /\ saga'[s].existing # NoTicket
                /\ tickets[saga'[s].existing].channelId \notin channels)
             => (saga'[s].pc = "heal" /\ saga'[s].result = NoResult)
          /\ (saga[s].pc = "heal" /\ saga'[s].pc # "heal")
             => /\ saga'[s].pc = "validate"
                /\ tickets'[saga[s].existing].status = CLOSED]_vars

\* C32: the existing-ticket check looks at the store and at nothing else: a
\* call at its check always can take it, and when the store holds no OPEN
\* ticket of the member the check lets the call through to validation,
\* wherever other calls for the same member are.  So two calls for one member
\* can both be past the check with neither record persisted.
C32_CheckHoldsNoLock ==
    [][\A s \in Sagas :
          saga[s].pc = "check"
             => /\ ENABLED SagaCheckRead(s)
                /\ (saga'[s].pc # "check"
                      /\ UserOpenTickets(tickets, saga[s].userId) = <<>>)
                   => saga'[s].pc = "validate"]_vars

\* C32 witness: two calls for the same member are both past the check, one
\* of them has provisioned its channel, and the store holds no record.
C32_Witness ==
    \E s, t \in Sagas :
        /\ s # t /\ saga[s].userId = saga[t].userId /\ saga[s].userId # NoUser
        /\ saga[s].pc = "persist" /\ saga[t].pc \in {"validate", "provision", "persist"}
        /\ tickets = <<>>

\* A guild whose one ticket, created by user 1, was closed and kept its
\* channel; createTicket calls and reopen clicks follow.
InitReopen ==
    /\ tickets = RepoUpdateTicketStatus(RepoCreateTicket(<<>>, 1, 1), 1, CLOSED, 1,
                                        "reason given by the actor")
    /\ channels = {1}
    /\ chanCount = 1
    /\ guildState = "enabled"
    /\ categoryState = "enabled"
    /\ supportRole = FALSE
    /\ saga = [s \in Sagas |-> IdleSaga]
    /\ handler = [h \in Handlers |-> IdleHandler]
    /\ delivery = EmptyBag
    /\ llm = IdleLLM
    /\ emb = IdleEmb

NextReopen ==
    \/ \E s \in Sagas, u \in Users : StartSaga(s, u)
    \/ \E s \in Sagas : SagaCheckRead(s)
    \/ \E s \in Sagas : SagaCheckHeal(s)
    \/ \E s \in Sagas : SagaValidate(s)
    \/ \E s \in Sagas : SagaProvision(s)
    \/ \E s \in Sagas : SagaPersist(s)
    \/ \E s \in Sagas : SagaRename(s)
    \/ \E s \in Sagas : SagaWelcome(s)
    \/ \E s \in Sagas : SagaCatch(s)
    \/ \E h \in Handlers : DispatchReopen(h)
    \/ \E h \in Handlers : ReopenRead(h)
    \/ \E h \in Handlers : ReopenWrite(h)

SpecReopen == InitReopen /\ [][NextReopen]_vars

\* C33: the status write of a reopen never takes the guild from a state in
\* which no member holds two OPEN tickets to a state in which the ticket's
\* creator holds two.
C33_ReopenKeepsOneOpenTicket ==
    [][\A h \in Handlers :
          (/\ handler[h].kind = "reopen" /\ handler[h].pc = "write"
           /\ tickets' # tickets
           /\ \A u \in Users : Cardinality(OpenTicketsOf(u)) <= 1)
             => \A u \in Users :
                   Cardinality({i \in DOMAIN tickets' :
                                   /\ tickets'[i].creatorId = u
                                   /\ tickets'[i].status = OPEN}) <= 1]_vars

\* Claim clicks in the channel of a ticket that is OPEN, CLOSED or ARCHIVED.
SpecClaimAnyStatus == InitGate /\ [][NextClaim]_vars

\* C34: the write of a claim or of an unclaim on a ticket that is CLOSED or
\* ARCHIVED at that moment leaves the ticket's claimant as it is.
C34_ClaimOnlyOnOpenTicket ==
    [][\A h \in Handlers :
          (/\ handler[h].kind = "claim" /\ handler[h].pc \in {"claim", "unclaim"}
           /\ tickets[handler[h].ticket].status # OPEN)
             => tickets'[handler[h].ticket].claimedById
                   = tickets[handler[h].ticket].claimedById]_vars

\* C35: a reopen whose status write went through and whose message to the
\* channel or whose permission overwrites then failed leaves the record as
\* the write made it: the ticket is OPEN, and the handler has made no
\* further write to the store.
C35_ReopenFailureAfterWriteKeepsOpen ==
    [][\A h \in Handlers :
          (/\ handler[h].kind = "reopen" /\ handler[h].pc = "write"
           /\ handler'[h].outcome \in {"reopenedNoPermissions", "errorAfterWrite"})
          => /\ tickets'[handler[h].ticket].status = OPEN
             /\ tickets' = RepoUpdateTicketStatus(tickets, handler[h].ticket, OPEN,
                                                  NoUser, "none")
             /\ handler'[h].pc = "done"]_vars

\* C35 witness: the ticket had been archived; its reopen wrote OPEN, the
\* message to the channel then failed and the member got the error reply; the
\* ticket is OPEN.
C35_Witness ==
    \E h \in Handlers :
        /\ handler[h].kind = "reopen" /\ handler[h].outcome = "errorAfterWrite"
        /\ handler[h].seenStatus = ARCHIVED
        /\ tickets[handler[h].ticket].status = OPEN

\* C36: once a collector has collected a cancel, no listener run of that
\* collector writes CLOSED, schedules the channel removal or removes the
\* channel.
C36_CancelBlocksConfirm ==
    [][\A r \in BagToSet(delivery) :
          (r.customId = "cancel_delete" /\ r.outcome # "filtered")
             => \A q \in BagToSet(delivery') :
                   (q.gate = r.gate /\ CopiesIn(q, delivery') > CopiesIn(q, delivery))
                      => /\ q.pc # "notify"
                         /\ q.removal \notin {"scheduled", "deleted"}]_vars

\* The delete flow with reopen and archive clicks in the same channel.
NextGateLife ==
    \/ NextGate
    \/ \E h \in Handlers : DispatchReopen(h)
    \/ \E h \in Handlers : ReopenRead(h)
    \/ \E h \in Handlers : ReopenWrite(h)
    \/ \E h \in Handlers : DispatchArchive(h)
    \/ \E h \in Handlers : ArchiveRead(h)
    \/ \E h \in Handlers : ArchiveWrite(h)

SpecGateLife == InitGate /\ [][NextGateLife]_vars

\* C37: at the step in which the timer of a confirmed delete removes the
\* channel, the record of the ticket has status CLOSED.
C37_RemovalFindsTicketClosed ==
    [][\A r \in BagToSet(delivery') :
          (r.removal = "deleted" /\ CopiesIn(r, delivery') > CopiesIn(r, delivery))
             => tickets[handler[r.gate].ticket].status = CLOSED]_vars

\* createTicket calls in an enabled guild whose one ticket, OPEN and created
\* by user 1, has lost its channel.
InitStale ==
    InitConfig /\ channels = {} /\ guildState = "enabled" /\ categoryState = "enabled"

SpecStale == InitStale /\ [][Next]_vars

\* C38: the existing-ticket check has no failure exit.  A call leaves the
\* check towards validation, towards the stale-ticket write, or with the
\* duplicate result for a ticket it read, and wherever it leaves the check
\* the failing query would have taken it to validation; it leaves the
\* stale-ticket write towards validation whether or not the write went
\* through, the failed write leaving the store as it was.
C38_CheckFailsOpen ==
    [][\A s \in Sagas :
          /\ (saga[s].pc = "check" /\ saga'[s].pc # "check")
             => /\ ENABLED (SagaCheckRead(s) /\ saga'[s].pc = "validate")
                /\ \/ saga'[s].pc \in {"validate", "heal"} /\ saga'[s].result = NoResult
                   \/ /\ saga'[s].pc = "done"
                      /\ saga'[s].result = Failure("duplicate")
                      /\ saga'[s].existing \in OpenTicketsOf(saga[s].userId)
          /\ (saga[s].pc = "heal" /\ saga'[s].pc # "heal")
             => /\ ENABLED (SagaCheckHeal(s) /\ tickets' = tickets)
                /\ saga'[s].pc = "validate" /\ saga'[s].result = NoResult]_vars

\* C38 witness: the stale-ticket write of a createTicket call of user 1
\* failed, so the stale ticket is still OPEN; the call went on to persist a
\* second record and returned success.
C38_Witness ==
    \E s \in Sagas :
        /\ saga[s].existing = 1 /\ tickets[1].status = OPEN
        /\ tickets[1].creatorId = saga[s].userId
        /\ saga[s].pc = "done" /\ saga[s].result.success
        /\ saga[s].ticket = 2

\* The guild left alone, for the AI calls.
InitAI ==
    Init /\ guildState = "enabled" /\ categoryState = "enabled" /\ supportRole = FALSE

NextLLM ==
    \/ LLMInvoke
    \/ LLMRequest
    \/ LLMWait

\* One LLM.invoke whose requests settle and whose timers fire.
SpecLLM ==
    InitAI /\ [][NextLLM]_vars /\ WF_vars(LLMRequest) /\ WF_vars(LLMWait)

\* C39: an LLM.invoke that was called comes to an end, returned or thrown;
\* it never makes more than maxRetries + 1 requests; the k-th wait is
\* retryDelayMs * 2^(k-1) and is entered only after an error whose status is
\* 429 or at least 500; an error of any other kind is rethrown by the pass
\* that met it; a response is returned by the pass that got it; and an
\* invoke that has ended makes no further request.
C39_InvokeBoundedRetries ==
    /\ (llm.pc \in {"request", "wait"}) ~> (llm.pc \in {"returned", "thrown"})
    /\ [](/\ llm.requests <= llm.maxRetries + 1
          /\ Len(llm.delays) = llm.retries - (IF llm.pc = "thrown" THEN 1 ELSE 0)
          /\ \A k \in DOMAIN llm.delays : llm.delays[k] = llm.retryDelayMs * Pow2(k - 1)
          /\ llm.pc = "returned" => llm.requests = llm.retries + 1
          /\ llm.pc = "thrown"
                => /\ llm.requests = llm.retries
                   /\ ~Retryable(llm.error) \/ llm.requests = llm.maxRetries + 1)
    /\ [][/\ llm.pc \in {"returned", "thrown"} => llm' = llm
          /\ llm'.pc = "wait" /\ llm.pc = "request"
                => /\ llm.retries < llm.maxRetries
                   /\ llm'.requests = llm.requests + 1
                   /\ Retryable(llm'.error)]_vars

\* C39 witness: with maxRetries = 3 every request failed with a status of
\* 429 or of 500 and more: four requests were made, the three waits were
\* retryDelayMs, twice and four times that, and the last error was thrown.
C39_Witness ==
    /\ llm.pc = "thrown" /\ llm.maxRetries = 3 /\ llm.requests = 4
    /\ llm.retryDelayMs = 1000
    /\ llm.delays = <<1000, 2000, 4000>>
    /\ Retryable(llm.error)

\* Embedding.create alone.
NextEmb ==
    \/ EmbCreate
    \/ EmbExtract
    \/ EmbWait

\* One Embedding.create whose extractions settle and whose timers fire.
SpecEmb ==
    InitAI /\ [][NextEmb]_vars /\ WF_vars(EmbExtract) /\ WF_vars(EmbWait)

\* Math.max(1, maxRetries): the loop body runs once before retries is
\* compared with maxRetries.
AttemptLimit(maxRetries) == IF maxRetries < 1 THEN 1 ELSE maxRetries

\* C40: an Embedding.create that was called comes to an end; it never makes
\* more than max(1, maxRetries) extraction attempts; every wait is
\* retryDelayMs; a failed attempt below the limit is followed by a wait
\* whatever the error was, and the failed attempt that reaches the limit
\* throws the wrapping error; embeddings are returned by the attempt that got
\* them; and a create that has ended makes no further attempt.  A create
\* whose pipeline could not be made ends before any attempt.
C40_CreateBoundedAttempts ==
    /\ (emb.pc \in {"extract", "wait"}) ~> (emb.pc \in {"returned", "thrown"})
    /\ [](/\ emb.attempts <= AttemptLimit(emb.maxRetries)
          /\ \A k \in DOMAIN emb.delays : emb.delays[k] = emb.retryDelayMs
          /\ Len(emb.delays) = emb.retries - (IF emb.thrown = "wrapped" THEN 1 ELSE 0)
          /\ emb.pc = "returned" => emb.attempts = emb.retries + 1
          /\ emb.thrown = "wrapped"
                => /\ emb.pc = "thrown"
                   /\ emb.attempts = AttemptLimit(emb.maxRetries)
                   /\ emb.retries = emb.attempts
          /\ emb.pc = "thrown" /\ emb.thrown # "wrapped" => emb.attempts = 0)
    /\ [][/\ emb.pc \in {"returned", "thrown"} => emb' = emb
          /\ emb.pc = "extract" /\ emb'.retries = emb.retries + 1
                => /\ emb'.attempts = emb.attempts + 1
                   /\ emb'.error \in ExtractErrors
                   /\ IF emb'.attempts < AttemptLimit(emb.maxRetries)
                      THEN emb'.pc = "wait"
                      ELSE emb'.pc = "thrown" /\ emb'.thrown = "wrapped"]_vars

\* C40 witness: with maxRetries = 3 the extractor gave nothing three times:
\* three attempts were made, the two waits were retryDelayMs each, and the
\* wrapping error was thrown.
C40_Witness ==
    /\ emb.pc = "thrown" /\ emb.thrown = "wrapped" /\ emb.error = "empty"
    /\ emb.maxRetries = 3 /\ emb.attempts = 3
    /\ emb.delays = <<1000, 1000>>

====
